---- MODULE Spec2Model ----
(***************************************************************************)
(* Formbricks Hub: authenticated CRUD and search over experience records.  *)
(*                                                                         *)
(* Spec       the HTTP service: Auth middleware, the six /v1/ handlers,    *)
(*            the service layer, the repositories and experience_data,     *)
(*            with every body, id and query and the key table as set up.   *)
(* SpecKeys   the same service seen from api_keys: every header shape,     *)
(*            keys switched off and on, the last-used updates running on   *)
(*            their own, one request per route.                            *)
(* SpecQuery  the statement builders of List, Search and Update applied to *)
(*            pairs of requests (query text against bound arguments).      *)
(* SpecRead   the routes that only read, List and Search, over stored      *)
(*            tables of up to four records, with every filter, search      *)
(*            text, window and malformed parameter.                        *)
(* SpecService  ExperienceService.SearchExperiences called directly: any   *)
(*            pageSize and page, any match count, and the run of pages     *)
(*            of one query over an unchanging table, and page numbers at   *)
(*            the far end of int.                                          *)
(* SpecUpdate   UpdateExperience called by two callers at a time, the      *)
(*            reading of the clock and the statement as separate steps.    *)
(* SpecKeysLive the routes behind Auth and the last-used updates, every    *)
(*            update started being scheduled (weak fairness).              *)
(* SpecKeyTable api_keys under the operator's hands: keys switched off,    *)
(*            deleted and set up again around the last-used updates.       *)
(*                                                                         *)
(* Go values: a pointer field is a sequence of length 0 (nil) or 1 (the    *)
(* value pointed to); a nullable column holds the same shape.  A string    *)
(* that the code takes apart (the Authorization header, the search text)   *)
(* is a sequence of tokens; "" is the empty sequence.                      *)
(***************************************************************************)
EXTENDS Integers, Sequences, FiniteSets, TLC

\* ------------------------------------------------------------------ bounds
MaxTime == 2          \* the clock runs from 1 to MaxTime
MaxRequests == 2      \* requests admitted in one behaviour

Clients == {"c1", "c2"}
UUIDs == {"id1", "id2"}
PathIds == UUIDs \cup {"not-a-uuid"}

Nil == <<>>
Ptr(v) == <<v>>

\* ------------------------------------------------------------ HTTP results
StatusOK == 200
StatusCreated == 201
StatusNoContent == 204
StatusBadRequest == 400
StatusUnauthorized == 401
StatusNotFound == 404
StatusInternalServerError == 500

NoResponse == [status |-> 0, kind |-> "none", error |-> "", message |-> ""]

\* http.Error(w, msg, code): a plain-text body
HttpError(msg, code) ==
  [status |-> code, kind |-> "text", error |-> "", message |-> msg]

RespondError(statusCode, errorType, message) ==
  [status |-> statusCode, kind |-> "json", error |-> errorType, message |-> message]

RespondSuccess(statusCode) ==
  [status |-> statusCode, kind |-> "data", error |-> "", message |-> ""]

WriteHeader(statusCode) ==
  [status |-> statusCode, kind |-> "empty", error |-> "", message |-> ""]

\* ------------------------------------------------- Authorization header
\* The header values a client sends, as token sequences.
Headers ==
  { <<>>,                          \* no header
    <<"Bearer">>,                  \* no separator
    <<"Bearer", " ">>,             \* empty key
    <<"Basic", " ", "k1">>,        \* wrong scheme
    <<"Bearer", " ", "k1">>,
    <<"bearer", " ", "k1">>,
    <<"Bearer", " ", "k2">>,
    <<"Bearer", " ", "k3">>,
    <<"Bearer", " ", " ", "k1">> } \* key " k1"

\* strings.ToLower on one token
ToLowerTok(t) ==
  CASE t = "Bearer" -> "bearer"
    [] t = "BEARER" -> "bearer"
    [] t = "Basic"  -> "basic"
    [] t = "HI"     -> "hi"
    [] t = "A"      -> "a"
    [] OTHER        -> t

ToLower(s) == [i \in 1..Len(s) |-> ToLowerTok(s[i])]

\* strings.SplitN(s, sep, 2)
SplitN2(s, sep) ==
  IF \E i \in 1..Len(s) : s[i] = sep
    THEN LET i == CHOOSE k \in 1..Len(s) :
                    s[k] = sep /\ \A j \in 1..(k-1) : s[j] # sep
         IN  <<SubSeq(s, 1, i-1), SubSeq(s, i+1, Len(s))>>
    ELSE <<s>>

\* --------------------------------------------------------- API key store
\* SHA-256 in hex: a one-way digest, taken to be collision free.
HashAPIKey(apiKey) == [sha256 |-> apiKey]

ErrNoRows == "no rows in result set"
ErrStore == "connection refused"

\* the lookup without "AND is_active = true"
ValidateAPIKey_AnyKnownKey(keys, apiKey, dbFail) ==
  LET keyHash == HashAPIKey(apiKey)
      rows == {k \in keys : k.key_hash = keyHash}
      err == IF dbFail THEN ErrStore
             ELSE IF rows = {} THEN ErrNoRows ELSE ""
  IN  IF err # ""
        THEN IF err = ErrNoRows
               THEN [key |-> Nil, err |-> "invalid or inactive API key"]
               ELSE [key |-> Nil, err |-> "failed to validate API key"]
        ELSE [key |-> Ptr(CHOOSE k \in rows : TRUE), err |-> ""]

\* SELECT ... FROM api_keys WHERE key_hash = $1 AND is_active = true
ValidateAPIKey(keys, apiKey, dbFail) ==
  LET keyHash == HashAPIKey(apiKey)
      rows == {k \in keys : k.key_hash = keyHash /\ k.is_active = TRUE}
      err == IF dbFail THEN ErrStore
             ELSE IF rows = {} THEN ErrNoRows ELSE ""
  IN  IF err # ""
        THEN IF err = ErrNoRows
               THEN [key |-> Nil, err |-> "invalid or inactive API key"]
               ELSE [key |-> Nil, err |-> "failed to validate API key"]
        ELSE [key |-> Ptr(CHOOSE k \in rows : TRUE), err |-> ""]

\* the statement with is_active = true among its assignments
UpdateLastUsedAtRows_Reactivates(keys, t, keyHash) ==
  { IF k.key_hash = keyHash
      THEN [k EXCEPT !.last_used_at = Ptr(t), !.updated_at = t, !.is_active = TRUE]
      ELSE k : k \in keys }

\* UPDATE api_keys SET last_used_at = $1, updated_at = $1 WHERE key_hash = $2
UpdateLastUsedAtRows(keys, t, keyHash) ==
  { IF k.key_hash = keyHash
      THEN [k EXCEPT !.last_used_at = Ptr(t), !.updated_at = t]
      ELSE k : k \in keys }

\* APIKeyRepository.UpdateLastUsedAt: the table after Exec, and the error
\* returned (Exec's, wrapped; the number of rows affected is not looked at)
RepoUpdateLastUsedAt(keys, t, keyHash, dbFail) ==
  IF dbFail
    THEN [keys |-> keys, err |-> "failed to update last used timestamp"]
    ELSE [keys |-> UpdateLastUsedAtRows(keys, t, keyHash), err |-> ""]

APIKeyRow(raw, active, t) ==
  [key_hash |-> HashAPIKey(raw), is_active |-> active,
   created_at |-> t, updated_at |-> t, last_used_at |-> Nil]

\* ------------------------------------------------------ experience_data
S(tok) == <<tok>>          \* a one-token string
EmptyString == <<>>

Columns ==
  <<"id", "collected_at", "created_at", "updated_at",
    "source_type", "source_id", "source_name",
    "field_id", "field_label", "field_type",
    "value_text", "value_number", "value_boolean", "value_date", "value_json",
    "metadata", "language", "user_identifier">>

ColumnSet == {Columns[i] : i \in 1..Len(Columns)}

\* columns declared NOT NULL in the schema
NotNullCols ==
  {"id", "collected_at", "created_at", "updated_at",
   "source_type", "field_id", "field_type"}

\* fmt.Sprintf("$%d", n)
DollarTab ==
  <<"$1", "$2", "$3", "$4", "$5", "$6", "$7", "$8", "$9", "$10",
    "$11", "$12", "$13", "$14", "$15", "$16", "$17">>

Dollar(n) == DollarTab[n]

\* the argument a placeholder stands for, as the store resolves it
PhIndex(ph) == CHOOSE k \in 1..Len(DollarTab) : DollarTab[k] = ph

Bound(stmt, ph) == stmt.args[PhIndex(ph)]

\* one predicate or assignment: cols op ph (several cols are OR-ed)
Clause(cols, op, n) == [cols |-> cols, op |-> op, ph |-> Dollar(n)]

\* ---- ILIKE: % any run, _ any one token, case-insensitive otherwise
RECURSIVE ILike(_, _)
ILike(s, p) ==
  IF p = <<>> THEN s = <<>>
  ELSE IF Head(p) = "%"
    THEN ILike(s, Tail(p)) \/ (s # <<>> /\ ILike(Tail(s), p))
  ELSE IF Head(p) = "_"
    THEN s # <<>> /\ ILike(Tail(s), Tail(p))
  ELSE s # <<>> /\ ToLowerTok(Head(s)) = ToLowerTok(Head(p))
       /\ ILike(Tail(s), Tail(p))

\* a comparison of a column value with a bound argument; NULL matches nothing
Compare(row, col, op, arg) ==
  LET isNull == col \notin NotNullCols /\ row[col] = Nil
      v == IF col \in NotNullCols THEN row[col] ELSE row[col][1]
  IN  /\ ~isNull
      /\ CASE op = "="     -> v = arg
           [] op = ">="    -> v >= arg
           [] op = "<="    -> v <= arg
           [] op = "ILIKE" -> ILike(v, arg)

Satisfies(row, stmt, clause) ==
  \E i \in 1..Len(clause.cols) :
    Compare(row, clause.cols[i], clause.op, Bound(stmt, clause.ph))

\* WHERE c1 AND c2 AND ...
Selected(rows, stmt) ==
  {r \in rows : \A i \in 1..Len(stmt.where) : Satisfies(r, stmt, stmt.where[i])}

\* ---- Create
InsertCols ==
  <<"collected_at", "source_type", "source_id", "source_name",
    "field_id", "field_label", "field_type",
    "value_text", "value_number", "value_boolean", "value_date", "value_json",
    "metadata", "language", "user_identifier">>

\* the INSERT with source_id and source_name bound the other way round
CreateStatement_SwappedArgs(req, t) ==
  LET collectedAt == IF req.CollectedAt # Nil THEN req.CollectedAt[1] ELSE t
  IN  [verb |-> "INSERT",
       cols |-> InsertCols,
       values |-> [i \in 1..Len(InsertCols) |-> Dollar(i)],
       args |-> <<collectedAt, req.SourceType, req.SourceName, req.SourceID,
                  req.FieldID, req.FieldLabel, req.FieldType,
                  req.ValueText, req.ValueNumber, req.ValueBoolean,
                  req.ValueDate, req.ValueJSON,
                  req.Metadata, req.Language, req.UserIdentifier>>]

CreateStatement(req, t) ==
  LET collectedAt == IF req.CollectedAt # Nil THEN req.CollectedAt[1] ELSE t
  IN  [verb |-> "INSERT",
       cols |-> InsertCols,
       values |-> [i \in 1..Len(InsertCols) |-> Dollar(i)],
       args |-> <<collectedAt, req.SourceType, req.SourceID, req.SourceName,
                  req.FieldID, req.FieldLabel, req.FieldType,
                  req.ValueText, req.ValueNumber, req.ValueBoolean,
                  req.ValueDate, req.ValueJSON,
                  req.Metadata, req.Language, req.UserIdentifier>>]

\* the row an INSERT builds: id from gen_random_uuid(), created_at and
\* updated_at from DEFAULT NOW(), the rest from the bound arguments
InsertedRow(stmt, newId, t) ==
  [c \in ColumnSet |->
     IF c = "id" THEN newId
     ELSE IF c \in {"created_at", "updated_at"} THEN t
     ELSE LET i == CHOOSE k \in 1..Len(stmt.cols) : stmt.cols[k] = c
          IN  Bound(stmt, stmt.values[i])]

\* a table without the primary key
PrimaryKeyFree_NoConstraint(rows, newId) == TRUE

\* id UUID PRIMARY KEY: an insert of an id already present is refused
PrimaryKeyFree(rows, newId) == \A r \in rows : r.id # newId

\* INSERT ... RETURNING
ExecInsert(rows, stmt, newId, t, dbFail) ==
  IF dbFail \/ ~PrimaryKeyFree(rows, newId)
    THEN [rows |-> rows, returned |-> <<>>, err |-> ErrStore]
    ELSE LET row == InsertedRow(stmt, newId, t)
         IN  [rows |-> rows \cup {row}, returned |-> <<row>>, err |-> ""]

RepoCreate(rows, req, t, newId, dbFail) ==
  LET res == ExecInsert(rows, CreateStatement(req, t), newId, t, dbFail)
  IN  IF res.err # ""
        THEN [rows |-> res.rows, data |-> <<>>, calls |-> 1,
              err |-> "failed to create experience"]
        ELSE [rows |-> res.rows, data |-> res.returned, calls |-> 1, err |-> ""]

\* ---- GetByID
GetByIDStatement(id) ==
  [verb |-> "SELECT", where |-> <<Clause(<<"id">>, "=", 1)>>,
   order |-> <<>>, limit |-> "", offset |-> "", args |-> <<id>>]

\* QueryRow(...).Scan: the first row, or ErrNoRows
QueryRow(rows, stmt, dbFail) ==
  LET sel == Selected(rows, stmt)
  IN  IF dbFail THEN [returned |-> <<>>, err |-> ErrStore]
      ELSE IF sel = {} THEN [returned |-> <<>>, err |-> ErrNoRows]
      ELSE [returned |-> <<CHOOSE r \in sel : TRUE>>, err |-> ""]

RepoGetByID(rows, id, dbFail) ==
  LET res == QueryRow(rows, GetByIDStatement(id), dbFail)
  IN  IF res.err # ""
        THEN IF res.err = ErrNoRows
               THEN [rows |-> rows, data |-> <<>>, calls |-> 1,
                     err |-> "experience not found"]
               ELSE [rows |-> rows, data |-> <<>>, calls |-> 1,
                     err |-> "failed to get experience"]
        ELSE [rows |-> rows, data |-> res.returned, calls |-> 1, err |-> ""]

\* ---- Delete
DeleteStatement(id) ==
  [verb |-> "DELETE", where |-> <<Clause(<<"id">>, "=", 1)>>, args |-> <<id>>]

\* a delete that marks the rows and keeps them
ExecDelete_KeepsRows(rows, stmt, dbFail) ==
  IF dbFail THEN [rows |-> rows, affected |-> 0, err |-> ErrStore]
  ELSE LET sel == Selected(rows, stmt)
       IN  [rows |-> rows, affected |-> Cardinality(sel), err |-> ""]

ExecDelete(rows, stmt, dbFail) ==
  IF dbFail THEN [rows |-> rows, affected |-> 0, err |-> ErrStore]
  ELSE LET sel == Selected(rows, stmt)
       IN  [rows |-> rows \ sel, affected |-> Cardinality(sel), err |-> ""]

\* Delete without the RowsAffected() == 0 test
RepoDelete_IgnoresRowsAffected(rows, id, dbFail) ==
  LET res == ExecDelete(rows, DeleteStatement(id), dbFail)
  IN  IF res.err # ""
        THEN [rows |-> res.rows, data |-> <<>>, calls |-> 1,
              err |-> "failed to delete experience"]
        ELSE [rows |-> res.rows, data |-> <<>>, calls |-> 1, err |-> ""]

RepoDelete(rows, id, dbFail) ==
  LET res == ExecDelete(rows, DeleteStatement(id), dbFail)
  IN  IF res.err # ""
        THEN [rows |-> res.rows, data |-> <<>>, calls |-> 1,
              err |-> "failed to delete experience"]
        ELSE IF res.affected = 0
          THEN [rows |-> res.rows, data |-> <<>>, calls |-> 1,
                err |-> "experience not found"]
          ELSE [rows |-> res.rows, data |-> <<>>, calls |-> 1, err |-> ""]

\* ---- dynamic statements: predicate list and argument list in lockstep
EmptyBuild == [clauses |-> <<>>, args |-> <<>>, argCount |-> 1]

\* the same without argCount++
AddClause_NoIncrement(b, present, cols, op, value) ==
  IF present
    THEN [clauses |-> Append(b.clauses, Clause(cols, op, b.argCount)),
          args |-> Append(b.args, value),
          argCount |-> b.argCount]
    ELSE b

\* if present { clauses = append(clauses, "cols op $argCount");
\*              args = append(args, value); argCount++ }
AddClause(b, present, cols, op, value) ==
  IF present
    THEN [clauses |-> Append(b.clauses, Clause(cols, op, b.argCount)),
          args |-> Append(b.args, value),
          argCount |-> b.argCount + 1]
    ELSE b

\* the optional fields, in the order the code tests them
RECURSIVE AddFields(_, _, _, _)
AddFields(b, req, fields, i) ==
  IF i > Len(fields) THEN b
  ELSE LET f == fields[i]
           p == req[f.field]
       IN  AddFields(AddClause(b, p # Nil, <<f.col>>, f.op,
                               IF p # Nil THEN p[1] ELSE Nil),
                     req, fields, i + 1)

F(field, col, op) == [field |-> field, col |-> col, op |-> op]

\* ---- Update
UpdateFields ==
  << F("SourceType", "source_type", "="), F("SourceID", "source_id", "="),
     F("SourceName", "source_name", "="), F("FieldID", "field_id", "="),
     F("FieldLabel", "field_label", "="), F("FieldType", "field_type", "="),
     F("ValueText", "value_text", "="), F("ValueNumber", "value_number", "="),
     F("ValueBoolean", "value_boolean", "="), F("ValueDate", "value_date", "="),
     F("ValueJSON", "value_json", "="), F("Metadata", "metadata", "="),
     F("Language", "language", "="), F("UserIdentifier", "user_identifier", "=") >>

UpdateFieldNames == {UpdateFields[i].field : i \in 1..Len(UpdateFields)}

\* the SET list of the request alone (before updated_at is appended)
UpdateBuild(req) == AddFields(EmptyBuild, req, UpdateFields, 1)

\* the UPDATE without its WHERE id = $n
UpdateStatement_NoWhere(id, req, t) ==
  LET b == UpdateBuild(req)
      b2 == AddClause(b, TRUE, <<"updated_at">>, "=", t)
  IN  [verb |-> "UPDATE",
       set |-> b2.clauses,
       where |-> <<>>,
       args |-> Append(b2.args, id)]

UpdateStatement(id, req, t) ==
  LET b == UpdateBuild(req)
      b2 == AddClause(b, TRUE, <<"updated_at">>, "=", t)
  IN  [verb |-> "UPDATE",
       set |-> b2.clauses,
       where |-> <<Clause(<<"id">>, "=", b2.argCount)>>,
       args |-> Append(b2.args, id)]

\* an UPDATE that writes every nullable column, NULL where the request has
\* no value for it
Assigned_ClearsUnset(row, stmt) ==
  [c \in ColumnSet |->
     IF \E i \in 1..Len(stmt.set) : stmt.set[i].cols[1] = c
       THEN LET i == CHOOSE k \in 1..Len(stmt.set) : stmt.set[k].cols[1] = c
                v == Bound(stmt, stmt.set[i].ph)
            IN  IF c \in NotNullCols THEN v ELSE Ptr(v)
       ELSE IF c \in NotNullCols THEN row[c] ELSE Nil]

\* SET col = $k: the value a row holds after the assignments
Assigned(row, stmt) ==
  [c \in ColumnSet |->
     IF \E i \in 1..Len(stmt.set) : stmt.set[i].cols[1] = c
       THEN LET i == CHOOSE k \in 1..Len(stmt.set) : stmt.set[k].cols[1] = c
                v == Bound(stmt, stmt.set[i].ph)
            IN  IF c \in NotNullCols THEN v ELSE Ptr(v)
       ELSE row[c]]

\* UPDATE ... WHERE ... RETURNING, scanned with QueryRow
ExecUpdate(rows, stmt, dbFail) ==
  IF dbFail THEN [rows |-> rows, returned |-> <<>>, err |-> ErrStore]
  ELSE LET sel == Selected(rows, stmt)
           upd == {Assigned(r, stmt) : r \in sel}
       IN  IF sel = {}
             THEN [rows |-> rows, returned |-> <<>>, err |-> ErrNoRows]
             ELSE [rows |-> (rows \ sel) \cup upd,
                   returned |-> <<CHOOSE r \in upd : TRUE>>, err |-> ""]

\* Update without the len(updates) == 0 return
RepoUpdate_AlwaysWrites(rows, id, req, t, dbFail) ==
  LET res == ExecUpdate(rows, UpdateStatement(id, req, t), dbFail)
  IN  IF res.err # ""
        THEN IF res.err = ErrNoRows
               THEN [rows |-> res.rows, data |-> <<>>, calls |-> 1,
                     err |-> "experience not found"]
               ELSE [rows |-> res.rows, data |-> <<>>, calls |-> 1,
                     err |-> "failed to update experience"]
        ELSE [rows |-> res.rows, data |-> res.returned, calls |-> 1, err |-> ""]

RepoUpdate(rows, id, req, t, dbFail) ==
  IF Len(UpdateBuild(req).clauses) = 0
    THEN RepoGetByID(rows, id, dbFail)
    ELSE LET res == ExecUpdate(rows, UpdateStatement(id, req, t), dbFail)
         IN  IF res.err # ""
               THEN IF res.err = ErrNoRows
                      THEN [rows |-> res.rows, data |-> <<>>, calls |-> 1,
                            err |-> "experience not found"]
                      ELSE [rows |-> res.rows, data |-> <<>>, calls |-> 1,
                            err |-> "failed to update experience"]
               ELSE [rows |-> res.rows, data |-> res.returned, calls |-> 1,
                     err |-> ""]

\* ---- List
ListFields ==
  << F("SourceType", "source_type", "="), F("SourceID", "source_id", "="),
     F("FieldID", "field_id", "="), F("UserIdentifier", "user_identifier", "=") >>

ListStatement(filters) ==
  LET b == AddFields(EmptyBuild, filters, ListFields, 1)
      hasLimit == filters.Limit > 0
      hasOffset == filters.Offset > 0
      limitAt == b.argCount
      offsetAt == IF hasLimit THEN b.argCount + 1 ELSE b.argCount
  IN  [verb |-> "SELECT",
       where |-> b.clauses,
       order |-> <<"collected_at", "DESC">>,
       limit |-> IF hasLimit THEN Dollar(limitAt) ELSE "",
       offset |-> IF hasOffset THEN Dollar(offsetAt) ELSE "",
       args |-> b.args \o (IF hasLimit THEN <<filters.Limit>> ELSE <<>>)
                       \o (IF hasOffset THEN <<filters.Offset>> ELSE <<>>)]

\* ---- Search
\* the filters of Search without field_type
SearchFields_NoFieldType ==
  << F("SourceType", "source_type", "="), F("SourceID", "source_id", "="),
     F("FieldID", "field_id", "="),
     F("UserIdentifier", "user_identifier", "="),
     F("StartDate", "collected_at", ">="), F("EndDate", "collected_at", "<=") >>

SearchFields ==
  << F("SourceType", "source_type", "="), F("SourceID", "source_id", "="),
     F("FieldID", "field_id", "="), F("FieldType", "field_type", "="),
     F("UserIdentifier", "user_identifier", "="),
     F("StartDate", "collected_at", ">="), F("EndDate", "collected_at", "<=") >>

TextCols == <<"value_text", "field_label", "source_name", "field_id">>

\* the search text written into the predicate instead of bound to it
SearchBuild_InlineQuery(req) ==
  LET hasQuery == req.Query # Nil /\ req.Query[1] # EmptyString
      b == IF hasQuery
             THEN [clauses |-> <<[cols |-> TextCols, op |-> "ILIKE",
                                  ph |-> Head(req.Query[1])]>>,
                   args |-> <<>>, argCount |-> 1]
             ELSE EmptyBuild
  IN  AddFields(b, req, SearchFields, 1)

SearchBuild(req) ==
  LET hasQuery == req.Query # Nil /\ req.Query[1] # EmptyString
      b == AddClause(EmptyBuild, hasQuery, TextCols, "ILIKE",
                     IF hasQuery THEN <<"%">> \o req.Query[1] \o <<"%">> ELSE Nil)
  IN  AddFields(b, req, SearchFields, 1)

\* the count taken over the whole table
CountStatement_NoWhere(req) ==
  [verb |-> "COUNT", where |-> <<>>, args |-> <<>>]

CountStatement(req) ==
  LET b == SearchBuild(req)
  IN  [verb |-> "COUNT", where |-> b.clauses, args |-> b.args]

\* ---- int: two's complement, IntBits wide. Go's int has 64 bits (32 on a
\* 32-bit build); the arithmetic is kept and the width is scaled
IntBits == 24
MaxInt == 2^(IntBits - 1) - 1
MinInt == 0 - 2^(IntBits - 1)

\* the value an int holds after an operation whose exact result is n
WrapInt(n) == ((n - MinInt) % 2^IntBits) + MinInt

\* a * b on ints: no check, no panic, the low IntBits bits of the product
MulInt(a, b) == WrapInt(a * b)

\* the data query with OFFSET bound to the page number
SearchStatement_OffsetIsPage(req) ==
  LET b == SearchBuild(req)
  IN  [verb |-> "SELECT",
       where |-> b.clauses,
       order |-> <<"collected_at", "DESC">>,
       limit |-> Dollar(b.argCount),
       offset |-> Dollar(b.argCount + 1),
       args |-> b.args \o <<req.PageSize, req.Page>>]

SearchStatement(req) ==
  LET b == SearchBuild(req)
      limit == req.PageSize
      offset == MulInt(req.Page, req.PageSize)
  IN  [verb |-> "SELECT",
       where |-> b.clauses,
       order |-> <<"collected_at", "DESC">>,
       limit |-> Dollar(b.argCount),
       offset |-> Dollar(b.argCount + 1),
       args |-> b.args \o <<limit, offset>>]

\* ---- SELECT ... ORDER BY collected_at DESC [LIMIT n] [OFFSET m]
\* the rows in any order: a SELECT without ORDER BY
Orderings_Unordered(sel) ==
  LET n == Cardinality(sel)
  IN  {s \in [1..n -> sel] : \A i, j \in 1..n : i # j => s[i] # s[j]}

\* every order of the selected rows the store may produce (ties are free)
Orderings(sel) ==
  LET n == Cardinality(sel)
  IN  {s \in [1..n -> sel] :
         /\ \A i, j \in 1..n : i # j => s[i] # s[j]
         /\ \A i \in 1..n : \A j \in 1..n :
              i < j => s[i].collected_at >= s[j].collected_at}

Min(a, b) == IF a < b THEN a ELSE b

Page(ordered, stmt) ==
  LET off == IF stmt.offset = "" THEN 0 ELSE Bound(stmt, stmt.offset)
      lim == IF stmt.limit = "" THEN Len(ordered) ELSE Bound(stmt, stmt.limit)
  IN  SubSeq(ordered, off + 1, Min(Len(ordered), off + lim))

\* the results db.Query can return for a statement
QueryResults(rows, stmt) ==
  {Page(o, stmt) : o \in Orderings(Selected(rows, stmt))}

\* ---- the query text sent to the store (everything but the arguments)
RECURSIVE Join(_, _)
Join(parts, sep) ==
  IF Len(parts) = 0 THEN <<>>
  ELSE IF Len(parts) = 1 THEN parts[1]
  ELSE parts[1] \o <<sep>> \o Join(Tail(parts), sep)

ClauseText(c) ==
  IF Len(c.cols) = 1
    THEN <<c.cols[1], c.op, c.ph>>
    ELSE <<"(">> \o Join([i \in 1..Len(c.cols) |-> <<c.cols[i], c.op, c.ph>>], "OR")
               \o <<")">>

ClauseTexts(cs) == [i \in 1..Len(cs) |-> ClauseText(cs[i])]

WhereText(cs) ==
  IF Len(cs) > 0 THEN <<"WHERE">> \o Join(ClauseTexts(cs), "AND") ELSE <<>>

\* id, collected_at, ..., user_identifier
ColumnList == Join([i \in 1..Len(Columns) |-> <<Columns[i]>>], ",")

QueryText(stmt) ==
  CASE stmt.verb = "UPDATE" ->
         <<"UPDATE", "experience_data", "SET">> \o Join(ClauseTexts(stmt.set), ",")
           \o WhereText(stmt.where) \o <<"RETURNING">> \o ColumnList
    [] stmt.verb = "COUNT" ->
         <<"SELECT", "COUNT(*)", "FROM", "experience_data">> \o WhereText(stmt.where)
    [] stmt.verb = "SELECT" ->
         <<"SELECT">> \o ColumnList \o <<"FROM", "experience_data">>
           \o WhereText(stmt.where)
           \o (IF stmt.order # <<>> THEN <<"ORDER BY">> \o stmt.order ELSE <<>>)
           \o (IF stmt.limit # "" THEN <<"LIMIT", stmt.limit>> ELSE <<>>)
           \o (IF stmt.offset # "" THEN <<"OFFSET", stmt.offset>> ELSE <<>>)

\* ---------------------------------------------------------- service layer
NoData == <<>>

Failed(rows, err) == [rows |-> rows, data |-> NoData, calls |-> 0, err |-> err]

\* validation that forgets field_type
validateCreateRequest_NoFieldType(req) ==
  IF req.SourceType = EmptyString THEN "source_type is required"
  ELSE IF req.FieldID = EmptyString THEN "field_id is required"
  ELSE ""

validateCreateRequest(req) ==
  IF req.SourceType = EmptyString THEN "source_type is required"
  ELSE IF req.FieldID = EmptyString THEN "field_id is required"
  ELSE IF req.FieldType = EmptyString THEN "field_type is required"
  ELSE ""

\* validation that forgets field_id
validateUpdateRequest_NoFieldID(req) ==
  IF req.SourceType # Nil /\ req.SourceType[1] = EmptyString
    THEN "source_type cannot be empty"
  ELSE IF req.FieldType # Nil /\ req.FieldType[1] = EmptyString
    THEN "field_type cannot be empty"
  ELSE ""

validateUpdateRequest(req) ==
  IF req.SourceType # Nil /\ req.SourceType[1] = EmptyString
    THEN "source_type cannot be empty"
  ELSE IF req.FieldID # Nil /\ req.FieldID[1] = EmptyString
    THEN "field_id cannot be empty"
  ELSE IF req.FieldType # Nil /\ req.FieldType[1] = EmptyString
    THEN "field_type cannot be empty"
  ELSE ""

CreateExperience(rows, req, t, newId, dbFail) ==
  LET err == validateCreateRequest(req)
  IN  IF err # "" THEN Failed(rows, err)
      ELSE RepoCreate(rows, req, t, newId, dbFail)

GetExperience(rows, id, dbFail) == RepoGetByID(rows, id, dbFail)

UpdateExperience(rows, id, req, t, dbFail) ==
  LET err == validateUpdateRequest(req)
  IN  IF err # "" THEN Failed(rows, err)
      ELSE RepoUpdate(rows, id, req, t, dbFail)

DeleteExperience(rows, id, dbFail) == RepoDelete(rows, id, dbFail)

DefaultLimit == 100
MaxLimit == 1000

\* ListExperiences without the cap
ListDefaults_NoCap(filters) ==
  [filters EXCEPT !.Limit = IF filters.Limit <= 0 THEN DefaultLimit ELSE filters.Limit]

\* ListExperiences: the filters as handed to the repository
ListDefaults(filters) ==
  LET l1 == IF filters.Limit <= 0 THEN DefaultLimit ELSE filters.Limit
      l2 == IF l1 > MaxLimit THEN MaxLimit ELSE l1
  IN  [filters EXCEPT !.Limit = l2]

DefaultPageSize == 20
MaxPageSize == 40

\* SearchExperiences without the cap on the page size
SearchDefaults_NoCap(req) ==
  [req EXCEPT !.PageSize = IF req.PageSize <= 0 THEN DefaultPageSize ELSE req.PageSize,
              !.Page = IF req.Page < 0 THEN 0 ELSE req.Page]

\* SearchExperiences: the request as handed to the repository
SearchDefaults(req) ==
  LET s1 == IF req.PageSize <= 0 THEN DefaultPageSize ELSE req.PageSize
      s2 == IF s1 > MaxPageSize THEN MaxPageSize ELSE s1
      p1 == IF req.Page < 0 THEN 0 ELSE req.Page
  IN  [req EXCEPT !.PageSize = s2, !.Page = p1]

\* totalPages without the +1 for a remainder
TotalPages_Floor(totalCount, pageSize) == totalCount \div pageSize

TotalPages(totalCount, pageSize) ==
  LET q == totalCount \div pageSize
  IN  IF totalCount % pageSize > 0 THEN q + 1 ELSE q

\* ---------------------------------------------------------------- handlers
\* what a handler leaves behind: the table, the response, the data in it,
\* and the number of statements it sent to experience_data
Outcome(rows, resp, d, calls) ==
  [rows |-> rows, resp |-> resp, data |-> d, calls |-> calls]

\* uuid.Parse
ValidUUID(idStr) == idStr \in UUIDs

HandleCreate(rows, body, t, newId, dbFail) ==
  IF ~body.valid
    THEN Outcome(rows, RespondError(StatusBadRequest, "invalid_request",
                                    "Invalid request body"), NoData, 0)
    ELSE LET out == CreateExperience(rows, body.req, t, newId, dbFail)
         IN  IF out.err # ""
               THEN Outcome(out.rows, RespondError(StatusBadRequest,
                              "creation_failed", out.err), NoData, out.calls)
               ELSE Outcome(out.rows, RespondSuccess(StatusCreated),
                            out.data, out.calls)

HandleGet(rows, idStr, dbFail) ==
  IF idStr = ""
    THEN Outcome(rows, RespondError(StatusBadRequest, "invalid_id",
                                    "Experience ID is required"), NoData, 0)
  ELSE IF ~ValidUUID(idStr)
    THEN Outcome(rows, RespondError(StatusBadRequest, "invalid_id",
                                    "Invalid UUID format"), NoData, 0)
  ELSE LET out == GetExperience(rows, idStr, dbFail)
       IN  IF out.err # ""
             THEN Outcome(out.rows, RespondError(StatusNotFound, "not_found",
                                                 out.err), NoData, out.calls)
             ELSE Outcome(out.rows, RespondSuccess(StatusOK), out.data, out.calls)

HandleUpdate(rows, idStr, body, t, dbFail) ==
  IF idStr = ""
    THEN Outcome(rows, RespondError(StatusBadRequest, "invalid_id",
                                    "Experience ID is required"), NoData, 0)
  ELSE IF ~ValidUUID(idStr)
    THEN Outcome(rows, RespondError(StatusBadRequest, "invalid_id",
                                    "Invalid UUID format"), NoData, 0)
  ELSE IF ~body.valid
    THEN Outcome(rows, RespondError(StatusBadRequest, "invalid_request",
                                    "Invalid request body"), NoData, 0)
  ELSE LET out == UpdateExperience(rows, idStr, body.req, t, dbFail)
       IN  IF out.err # ""
             THEN Outcome(out.rows, RespondError(StatusBadRequest,
                            "update_failed", out.err), NoData, out.calls)
             ELSE Outcome(out.rows, RespondSuccess(StatusOK), out.data, out.calls)

HandleDelete(rows, idStr, dbFail) ==
  IF idStr = ""
    THEN Outcome(rows, RespondError(StatusBadRequest, "invalid_id",
                                    "Experience ID is required"), NoData, 0)
  ELSE IF ~ValidUUID(idStr)
    THEN Outcome(rows, RespondError(StatusBadRequest, "invalid_id",
                                    "Invalid UUID format"), NoData, 0)
  ELSE LET out == DeleteExperience(rows, idStr, dbFail)
       IN  IF out.err # ""
             THEN Outcome(out.rows, RespondError(StatusNotFound, "delete_failed",
                                                 out.err), NoData, out.calls)
             ELSE Outcome(out.rows, WriteHeader(StatusNoContent), NoData, out.calls)

\* ---- query parameters
\* a numeric or date parameter as sent: absent (""), unparsable, or a value
Absent == [s |-> "", n |-> 0]
Garbage == [s |-> "abc", n |-> 0]
Num(n) == [s |-> "num", n |-> n]

\* strconv.Atoi / time.Parse(time.RFC3339, ...) succeed
Parses(param) == param.s = "num"

StrFilter(v) == IF v # EmptyString THEN Ptr(v) ELSE Nil

\* ExperienceHandler.List: the filters built from the query string
ListFilters(q) ==
  [SourceType |-> StrFilter(q.source_type),
   SourceID |-> StrFilter(q.source_id),
   FieldID |-> StrFilter(q.field_id),
   UserIdentifier |-> StrFilter(q.user_identifier),
   Limit |-> IF q.limit.s # "" /\ Parses(q.limit) /\ q.limit.n > 0
               THEN q.limit.n ELSE 0,
   Offset |-> IF q.offset.s # "" /\ Parses(q.offset) /\ q.offset.n >= 0
                THEN q.offset.n ELSE 0]

\* ExperienceHandler.List with the rows db.Query produced
HandleList(rows, q, result, dbFail) ==
  IF dbFail
    THEN Outcome(rows, RespondError(StatusInternalServerError, "list_failed",
                                    "failed to list experiences"), NoData, 1)
    ELSE Outcome(rows, RespondSuccess(StatusOK), result, 1)

\* the parsing of Search without the page < 0 test
SearchParseError_NegativePagePasses(q) ==
  IF q.start_date.s # "" /\ ~Parses(q.start_date)
    THEN "Invalid start_date format, use RFC3339"
  ELSE IF q.end_date.s # "" /\ ~Parses(q.end_date)
    THEN "Invalid end_date format, use RFC3339"
  ELSE IF q.pageSize.s # "" /\ (~Parses(q.pageSize) \/ q.pageSize.n < 0)
    THEN "Invalid pageSize parameter"
  ELSE IF q.page.s # "" /\ ~Parses(q.page)
    THEN "Invalid page parameter"
  ELSE ""

\* ExperienceHandler.Search: the 400 it answers while parsing, or ""
SearchParseError(q) ==
  IF q.start_date.s # "" /\ ~Parses(q.start_date)
    THEN "Invalid start_date format, use RFC3339"
  ELSE IF q.end_date.s # "" /\ ~Parses(q.end_date)
    THEN "Invalid end_date format, use RFC3339"
  ELSE IF q.pageSize.s # "" /\ (~Parses(q.pageSize) \/ q.pageSize.n < 0)
    THEN "Invalid pageSize parameter"
  ELSE IF q.page.s # "" /\ (~Parses(q.page) \/ q.page.n < 0)
    THEN "Invalid page parameter"
  ELSE ""

SearchParseErrorType(q) ==
  IF (q.start_date.s # "" /\ ~Parses(q.start_date))
     \/ (q.end_date.s # "" /\ ~Parses(q.end_date))
    THEN "invalid_date" ELSE "invalid_parameter"

\* ExperienceHandler.Search: the request built from the query string
SearchRequest(q) ==
  [Query |-> StrFilter(q.query),
   SourceType |-> StrFilter(q.source_type),
   SourceID |-> StrFilter(q.source_id),
   FieldID |-> StrFilter(q.field_id),
   FieldType |-> StrFilter(q.field_type),
   UserIdentifier |-> StrFilter(q.user_identifier),
   StartDate |-> IF q.start_date.s # "" THEN Ptr(q.start_date.n) ELSE Nil,
   EndDate |-> IF q.end_date.s # "" THEN Ptr(q.end_date.n) ELSE Nil,
   PageSize |-> IF q.pageSize.s # "" THEN q.pageSize.n ELSE 0,
   Page |-> IF q.page.s # "" THEN q.page.n ELSE 0]

\* the count of the table, whatever the request
CountRows_WholeTable(rows, req) == Cardinality(rows)

\* SELECT COUNT(*) ... scanned into totalCount
CountRows(rows, req) == Cardinality(Selected(rows, CountStatement(req)))

\* SearchExperiences once both queries have answered
SearchResponse(req, experiences, totalCount) ==
  [Data |-> experiences, Page |-> req.Page, PageSize |-> req.PageSize,
   TotalCount |-> totalCount,
   TotalPages |-> TotalPages(totalCount, req.PageSize)]

\* ------------------------------------------------------------ middleware
\* Auth answering with the error ValidateAPIKey returned
AuthCheck_ReportsError(keys, authHeader, dbFail) ==
  IF authHeader = EmptyString
    THEN [next |-> FALSE, key |-> Nil,
          resp |-> HttpError("Missing Authorization header", StatusUnauthorized)]
  ELSE LET parts == SplitN2(authHeader, " ")
       IN  IF Len(parts) # 2 \/ ToLower(parts[1]) # <<"bearer">>
             THEN [next |-> FALSE, key |-> Nil,
                   resp |-> HttpError("Invalid Authorization header format. Expected: Bearer <api-key>",
                                      StatusUnauthorized)]
           ELSE LET apiKey == parts[2]
                IN  IF apiKey = EmptyString
                      THEN [next |-> FALSE, key |-> Nil,
                            resp |-> HttpError("API key is empty", StatusUnauthorized)]
                    ELSE LET v == ValidateAPIKey(keys, apiKey, dbFail)
                         IN  IF v.err # ""
                               THEN [next |-> FALSE, key |-> Nil,
                                     resp |-> HttpError(v.err, StatusUnauthorized)]
                               ELSE [next |-> TRUE, key |-> v.key, resp |-> NoResponse]

\* Auth, up to the call of next.ServeHTTP: the 401 it writes, or the key
\* it validated
AuthCheck(keys, authHeader, dbFail) ==
  IF authHeader = EmptyString
    THEN [next |-> FALSE, key |-> Nil,
          resp |-> HttpError("Missing Authorization header", StatusUnauthorized)]
  ELSE LET parts == SplitN2(authHeader, " ")
       IN  IF Len(parts) # 2 \/ ToLower(parts[1]) # <<"bearer">>
             THEN [next |-> FALSE, key |-> Nil,
                   resp |-> HttpError("Invalid Authorization header format. Expected: Bearer <api-key>",
                                      StatusUnauthorized)]
           ELSE LET apiKey == parts[2]
                IN  IF apiKey = EmptyString
                      THEN [next |-> FALSE, key |-> Nil,
                            resp |-> HttpError("API key is empty", StatusUnauthorized)]
                    ELSE LET v == ValidateAPIKey(keys, apiKey, dbFail)
                         IN  IF v.err # ""
                               THEN [next |-> FALSE, key |-> Nil,
                                     resp |-> HttpError("Invalid or inactive API key",
                                                        StatusUnauthorized)]
                               ELSE [next |-> TRUE, key |-> v.key, resp |-> NoResponse]

\* ------------------------------------------------------ requests clients send
ZeroCreate ==
  [CollectedAt |-> Nil, SourceType |-> EmptyString, SourceID |-> Nil,
   SourceName |-> Nil, FieldID |-> EmptyString, FieldLabel |-> Nil,
   FieldType |-> EmptyString, ValueText |-> Nil, ValueNumber |-> Nil,
   ValueBoolean |-> Nil, ValueDate |-> Nil, ValueJSON |-> Nil,
   Metadata |-> Nil, Language |-> Nil, UserIdentifier |-> Nil]

BaseCreate ==
  [ZeroCreate EXCEPT !.SourceType = S("formbricks"), !.FieldID = S("q1"),
                     !.FieldType = S("text"), !.ValueText = Ptr(S("hi"))]

FullCreate ==
  [CollectedAt |-> Ptr(1), SourceType |-> S("formbricks"), SourceID |-> Ptr(S("s1")),
   SourceName |-> Ptr(S("survey")), FieldID |-> S("q1"), FieldLabel |-> Ptr(S("label")),
   FieldType |-> S("number"), ValueText |-> Ptr(S("hi")), ValueNumber |-> Ptr(5),
   ValueBoolean |-> Ptr(TRUE), ValueDate |-> Ptr(1), ValueJSON |-> Ptr(S("{}")),
   Metadata |-> Ptr(S("{}")), Language |-> Ptr(S("en")), UserIdentifier |-> Ptr(S("u1"))]

CreateRequests ==
  { BaseCreate, FullCreate,
    [BaseCreate EXCEPT !.SourceType = EmptyString],
    [BaseCreate EXCEPT !.FieldID = EmptyString],
    [BaseCreate EXCEPT !.FieldType = EmptyString] }

CreateBodies ==
  {[valid |-> TRUE, req |-> r] : r \in CreateRequests}
    \cup {[valid |-> FALSE, req |-> ZeroCreate]}

ZeroUpdate == [f \in UpdateFieldNames |-> Nil]

\* the value an update sends for a field
NewValue ==
  [SourceType |-> S("typeform"), SourceID |-> S("s2"), SourceName |-> S("poll"),
   FieldID |-> S("q2"), FieldLabel |-> S("label2"), FieldType |-> S("boolean"),
   ValueText |-> S("bye"), ValueNumber |-> 7, ValueBoolean |-> FALSE,
   ValueDate |-> 2, ValueJSON |-> S("[]"), Metadata |-> S("[]"),
   Language |-> S("de"), UserIdentifier |-> S("u2")]

UpdateRequests ==
  {ZeroUpdate}
    \cup {[ZeroUpdate EXCEPT ![f] = Ptr(NewValue[f])] :
            f \in {"SourceType", "ValueText"}}
    \cup {[ZeroUpdate EXCEPT !.FieldID = Ptr(NewValue.FieldID),
                             !.FieldType = Ptr(NewValue.FieldType),
                             !.ValueNumber = Ptr(NewValue.ValueNumber)]}
    \cup {[f \in UpdateFieldNames |-> Ptr(NewValue[f])]}
    \cup {[ZeroUpdate EXCEPT ![f] = Ptr(EmptyString)] :
            f \in {"SourceType", "FieldID", "FieldType"}}
    \cup {[ZeroUpdate EXCEPT !.ValueText = Ptr(S("bye")), !.FieldID = Ptr(EmptyString)]}

UpdateBodies ==
  {[valid |-> TRUE, req |-> r] : r \in UpdateRequests}
    \cup {[valid |-> FALSE, req |-> ZeroUpdate]}

ZeroListQuery ==
  [source_type |-> EmptyString, source_id |-> EmptyString, field_id |-> EmptyString,
   user_identifier |-> EmptyString, limit |-> Absent, offset |-> Absent]

ListQueries ==
  { ZeroListQuery,
    [ZeroListQuery EXCEPT !.field_id = S("q2"), !.limit = Num(2000)],
    [ZeroListQuery EXCEPT !.limit = Num(1), !.offset = Num(1)],
    [ZeroListQuery EXCEPT !.limit = Garbage, !.offset = Num(0 - 1)] }

ZeroSearchQuery ==
  [query |-> EmptyString, source_type |-> EmptyString, source_id |-> EmptyString,
   field_id |-> EmptyString, field_type |-> EmptyString,
   user_identifier |-> EmptyString, start_date |-> Absent, end_date |-> Absent,
   pageSize |-> Absent, page |-> Absent]

SearchQueries ==
  { ZeroSearchQuery,
    [ZeroSearchQuery EXCEPT !.query = S("HI"), !.source_type = S("formbricks")],
    [ZeroSearchQuery EXCEPT !.pageSize = Num(1), !.page = Num(1)],
    [ZeroSearchQuery EXCEPT !.start_date = Num(1), !.end_date = Num(1),
                            !.pageSize = Num(100)],
    [ZeroSearchQuery EXCEPT !.start_date = Garbage],
    [ZeroSearchQuery EXCEPT !.page = Num(0 - 1)] }

\* What the clients of a specification send: Authorization headers, bodies
\* of POST and PATCH, path ids, query strings of list and search.
AllRequests ==
  [headers |-> Headers, create |-> CreateBodies, ids |-> PathIds,
   update |-> UpdateBodies, list |-> ListQueries, search |-> SearchQueries]

\* clients of the experience routes: every body, id and query, sent without a
\* header, with the test key or with the retired key
DataRequests ==
  [AllRequests EXCEPT
     !.headers = {EmptyString, <<"Bearer", " ">> \o <<"k1">>, <<"Bearer", " ">> \o <<"k2">>}]

\* clients probing the authentication: every header, one request per route
\* and outcome
KeyRequests ==
  [AllRequests EXCEPT
     !.create = {[valid |-> TRUE, req |-> BaseCreate]},
     !.ids = {"id1"},
     !.update = {[valid |-> TRUE, req |-> [ZeroUpdate EXCEPT !.ValueText = Ptr(S("bye"))]]},
     !.list = {ZeroListQuery},
     !.search = {ZeroSearchQuery}]

\* ------------------------------------------------------------------ state
VARIABLES
  api_keys,          \* table api_keys
  experience_data,   \* table experience_data
  now,               \* the clock read by time.Now() and NOW()
  pc,                \* per client: "idle", "next" (authenticated), "search"
  search,            \* per client: the search between its two queries
  pending,           \* last-used updates started and not yet run, per key hash
  admitted,          \* requests received so far
  last,              \* the latest step of a request: who, what, the response
  probe              \* two calls of one repository method: requests, statements

vars == <<api_keys, experience_data, now, pc, search, pending, admitted, last,
          probe>>

TestAPIKey == <<"k1">>
RetiredAPIKey == <<"k2">>

KeyHashes == {HashAPIKey(TestAPIKey), HashAPIKey(RetiredAPIKey)}

NoCall == [op |-> "none"]
NoSearch == [op |-> "none"]
NoProbe == [op |-> "none"]

\* event: "auth" (Auth answered or passed the request on), "handler" (a
\* handler answered), "query" (the count query of a search answered)
Event(c, event, authHeader, input, response, d, n) ==
  [client |-> c, event |-> event, hdr |-> authHeader, call |-> input,
   resp |-> response, data |-> d, calls |-> n]

\* rows left by earlier runs of the service
SeedRow(req, id) == InsertedRow(CreateStatement(req, 0), id, 0)

SeedTables ==
  { {},
    {SeedRow(BaseCreate, "id1")},
    {SeedRow(FullCreate, "id1"), SeedRow(BaseCreate, "id2")} }

Init ==
  /\ api_keys = {APIKeyRow(TestAPIKey, TRUE, 0), APIKeyRow(RetiredAPIKey, FALSE, 0)}
  /\ experience_data \in SeedTables
  /\ now = 1
  /\ pc = [c \in Clients |-> "idle"]
  /\ search = [c \in Clients |-> NoSearch]
  /\ pending = [h \in KeyHashes |-> 0]
  /\ admitted = 0
  /\ last = Event("c1", "none", EmptyString, NoCall, NoResponse, NoData, 0)
  /\ probe = NoProbe

\* ---------------------------------------------------------------- actions
\* Auth passing a request on without starting the update
Auth_NoUpdate(c, in) ==
  /\ pc[c] = "idle"
  /\ admitted < MaxRequests
  /\ \E authHeader \in in.headers, dbFail \in BOOLEAN :
       LET a == AuthCheck(api_keys, authHeader, dbFail)
       IN  /\ last' = Event(c, "auth", authHeader, NoCall, a.resp, NoData, 0)
           /\ pc' = [pc EXCEPT ![c] = IF a.next THEN "next" ELSE "idle"]
  /\ admitted' = admitted + 1
  /\ UNCHANGED <<probe, api_keys, experience_data, now, search, pending>>

\* A request arrives at a /v1/ route and passes through Auth.  On success the
\* goroutine for the last-used update is started and next.ServeHTTP is due.
Auth(c, in) ==
  /\ pc[c] = "idle"
  /\ admitted < MaxRequests
  /\ \E authHeader \in in.headers, dbFail \in BOOLEAN :
       LET a == AuthCheck(api_keys, authHeader, dbFail)
       IN  /\ last' = Event(c, "auth", authHeader, NoCall, a.resp, NoData, 0)
           /\ pc' = [pc EXCEPT ![c] = IF a.next THEN "next" ELSE "idle"]
           /\ pending' = IF a.next
                           THEN [pending EXCEPT ![a.key[1].key_hash] = @ + 1]
                           ELSE pending
  /\ admitted' = admitted + 1
  /\ UNCHANGED <<probe, api_keys, experience_data, now, search>>

\* the last-used update with its error written to the caller
UpdateLastUsedAt_SurfacesError(h) ==
  /\ pending[h] > 0
  /\ pending' = [pending EXCEPT ![h] = @ - 1]
  /\ \E dbFail \in BOOLEAN :
       /\ api_keys' = IF dbFail THEN api_keys
                       ELSE UpdateLastUsedAtRows(api_keys, now, h)
       /\ last' = IF dbFail
                    THEN [last EXCEPT !.resp =
                            HttpError("failed to update last used timestamp",
                                      StatusInternalServerError)]
                    ELSE last
  /\ UNCHANGED <<probe, experience_data, now, pc, search, admitted>>

\* go func() { _ = apiKeyRepo.UpdateLastUsedAt(bgCtx, validatedKey.KeyHash) }()
UpdateLastUsedAt(h) ==
  /\ pending[h] > 0
  /\ pending' = [pending EXCEPT ![h] = @ - 1]
  /\ \E dbFail \in BOOLEAN :
       api_keys' = RepoUpdateLastUsedAt(api_keys, now, h, dbFail).keys
  /\ UNCHANGED <<probe, experience_data, now, pc, search, admitted, last>>

\* a handler returns: its response is written and its effects are in the table
Finish(c, input, out, sent) ==
  /\ experience_data' = out.rows
  /\ pc' = [pc EXCEPT ![c] = "idle"]
  /\ search' = [search EXCEPT ![c] = NoSearch]
  /\ last' = Event(c, "handler", EmptyString, input, out.resp, out.data,
                   sent + out.calls)
  /\ UNCHANGED <<probe, api_keys, now, pending, admitted>>

\* POST /v1/experiences
Create(c, in) ==
  /\ pc[c] = "next"
  /\ \E body \in in.create, newId \in UUIDs, dbFail \in BOOLEAN :
       Finish(c, [op |-> "create", body |-> body, dbFail |-> dbFail],
              HandleCreate(experience_data, body, now, newId, dbFail), 0)

\* GET /v1/experiences/{id}
Get(c, in) ==
  /\ pc[c] = "next"
  /\ \E idStr \in in.ids, dbFail \in BOOLEAN :
       Finish(c, [op |-> "get", id |-> idStr, dbFail |-> dbFail],
              HandleGet(experience_data, idStr, dbFail), 0)

\* GET /v1/experiences
List(c, in) ==
  /\ pc[c] = "next"
  /\ \E q \in in.list, dbFail \in BOOLEAN :
       LET filters == ListDefaults(ListFilters(q))
       IN  \E result \in QueryResults(experience_data, ListStatement(filters)) :
             Finish(c, [op |-> "list", q |-> q, filters |-> filters,
                        dbFail |-> dbFail],
                    HandleList(experience_data, q, result, dbFail), 0)

\* PATCH /v1/experiences/{id}
Update(c, in) ==
  /\ pc[c] = "next"
  /\ \E idStr \in in.ids, body \in in.update, dbFail \in BOOLEAN :
       Finish(c, [op |-> "update", id |-> idStr, body |-> body, dbFail |-> dbFail],
              HandleUpdate(experience_data, idStr, body, now, dbFail), 0)

\* DELETE /v1/experiences/{id}
Delete(c, in) ==
  /\ pc[c] = "next"
  /\ \E idStr \in in.ids, dbFail \in BOOLEAN :
       Finish(c, [op |-> "delete", id |-> idStr, dbFail |-> dbFail],
              HandleDelete(experience_data, idStr, dbFail), 0)

\* GET /v1/experiences/search, up to the answer of the count query
SearchCount(c, in) ==
  /\ pc[c] = "next"
  /\ \E q \in in.search, dbFail \in BOOLEAN :
       LET req == SearchDefaults(SearchRequest(q))
           input == [op |-> "search", q |-> q, req |-> req, total |-> 0,
                     totalPages |-> 0, dbFail |-> dbFail]
       IN  IF SearchParseError(q) # ""
             THEN Finish(c, input,
                         Outcome(experience_data,
                                 RespondError(StatusBadRequest, SearchParseErrorType(q),
                                              SearchParseError(q)), NoData, 0), 0)
           ELSE IF dbFail
             THEN Finish(c, input,
                         Outcome(experience_data,
                                 RespondError(StatusInternalServerError, "search_failed",
                                              "failed to count experiences"), NoData, 1), 0)
           ELSE LET counted == [input EXCEPT !.total = CountRows(experience_data, req)]
                IN  /\ pc' = [pc EXCEPT ![c] = "search"]
                    /\ search' = [search EXCEPT ![c] = counted]
                    /\ last' = Event(c, "query", EmptyString, counted, NoResponse,
                                     NoData, 1)
                    /\ UNCHANGED <<probe, api_keys, experience_data, now, pending, admitted>>

\* ... and from the data query to the response
SearchData(c) ==
  /\ pc[c] = "search"
  /\ \E dbFail \in BOOLEAN :
       LET req == search[c].req
       IN  IF dbFail
             THEN Finish(c, [search[c] EXCEPT !.dbFail = TRUE],
                         Outcome(experience_data,
                                 RespondError(StatusInternalServerError, "search_failed",
                                              "failed to search experiences"), NoData, 1), 1)
             ELSE \E result \in QueryResults(experience_data, SearchStatement(req)) :
                    LET r == SearchResponse(req, result, search[c].total)
                    IN  Finish(c, [search[c] EXCEPT !.totalPages = r.TotalPages],
                               Outcome(experience_data, RespondSuccess(StatusOK),
                                       r.Data, 1), 1)

\* time passes
Tick ==
  /\ now < MaxTime
  /\ now' = now + 1
  /\ UNCHANGED <<probe, api_keys, experience_data, pc, search, pending, admitted, last>>

\* INSERT INTO api_keys ... ON CONFLICT (key_hash) DO UPDATE SET is_active = true
EnsureTestAPIKey ==
  /\ api_keys' =
       IF \E k \in api_keys : k.key_hash = HashAPIKey(TestAPIKey)
         THEN { IF k.key_hash = HashAPIKey(TestAPIKey)
                  THEN [k EXCEPT !.is_active = TRUE] ELSE k : k \in api_keys }
         ELSE api_keys \cup {APIKeyRow(TestAPIKey, TRUE, now)}
  /\ UNCHANGED <<probe, experience_data, now, pc, search, pending, admitted, last>>

\* an operator switches a key off (is_active is the soft-disable flag)
DeactivateKey(h) ==
  /\ \E k \in api_keys : k.key_hash = h /\ k.is_active
  /\ api_keys' = { IF k.key_hash = h THEN [k EXCEPT !.is_active = FALSE] ELSE k :
                   k \in api_keys }
  /\ UNCHANGED <<probe, experience_data, now, pc, search, pending, admitted, last>>

\* an operator deletes a key
RemoveKey(h) ==
  /\ \E k \in api_keys : k.key_hash = h
  /\ api_keys' = {k \in api_keys : k.key_hash # h}
  /\ UNCHANGED <<probe, experience_data, now, pc, search, pending, admitted, last>>

\* the experience routes behind Auth, with the key table as set up
Next ==
  \/ \E c \in Clients : Auth(c, DataRequests)
  \/ \E c \in Clients : Create(c, DataRequests)
  \/ \E c \in Clients : Get(c, DataRequests)
  \/ \E c \in Clients : List(c, DataRequests)
  \/ \E c \in Clients : Update(c, DataRequests)
  \/ \E c \in Clients : Delete(c, DataRequests)
  \/ \E c \in Clients : SearchCount(c, DataRequests)
  \/ \E c \in Clients : SearchData(c)
  \/ Tick

Spec == Init /\ [][Next]_vars

\* Auth and the API keys: keys switched on and off, the last-used updates
\* running on their own, the routes behind
NextKeys ==
  \/ \E c \in Clients : Auth(c, KeyRequests)
  \/ \E c \in Clients : Create(c, KeyRequests)
  \/ \E c \in Clients : Get(c, KeyRequests)
  \/ \E c \in Clients : List(c, KeyRequests)
  \/ \E c \in Clients : Update(c, KeyRequests)
  \/ \E c \in Clients : Delete(c, KeyRequests)
  \/ \E c \in Clients : SearchCount(c, KeyRequests)
  \/ \E c \in Clients : SearchData(c)
  \/ \E h \in KeyHashes : UpdateLastUsedAt(h)
  \/ Tick
  \/ EnsureTestAPIKey
  \/ \E h \in KeyHashes : DeactivateKey(h)

SpecKeys == Init /\ [][NextKeys]_vars

\* the key table under the operator's hands: keys switched off, deleted and
\* set up again while requests for one record are authenticated and their
\* last-used updates run
NextKeyTable ==
  \/ \E c \in Clients : Auth(c, KeyRequests)
  \/ \E c \in Clients : Get(c, KeyRequests)
  \/ \E h \in KeyHashes : UpdateLastUsedAt(h)
  \/ Tick
  \/ EnsureTestAPIKey
  \/ \E h \in KeyHashes : DeactivateKey(h)
  \/ \E h \in KeyHashes : RemoveKey(h)

SpecKeyTable == Init /\ [][NextKeyTable]_vars

\* ------------------------------------- the statements of two calls, side by side
MaxPresent == 2      \* optional fields both requests may carry (or all of them)

\* what db.Query / db.QueryRow receives: the query text and the arguments
Sent(stmt) == [text |-> QueryText(stmt), args |-> stmt.args]

\* the statements of ExperienceRepository.Update, List and Search
UpdateSent(id, req, t) ==
  IF Len(UpdateBuild(req).clauses) = 0
    THEN <<Sent(GetByIDStatement(id))>>
    ELSE <<Sent(UpdateStatement(id, req, t))>>

ListSent(filters) == <<Sent(ListStatement(filters))>>

SearchSent(req) == <<Sent(CountStatement(req)), Sent(SearchStatement(req))>>

\* the sets of fields two requests carry, and the values they carry in them:
\* each its own when few fields are present, one choice for all otherwise
Shapes(names) == {P \in SUBSET names : Cardinality(P) <= MaxPresent} \cup {names}

Choices(P) ==
  IF Cardinality(P) <= MaxPresent THEN [P -> 1..2]
  ELSE {[f \in P |-> i] : i \in 1..2}

\* the second value an update may send for a field
OtherValue ==
  [SourceType |-> <<"x", "'">>, SourceID |-> <<"x", "'">>, SourceName |-> EmptyString,
   FieldID |-> <<"x", "'">>, FieldLabel |-> EmptyString, FieldType |-> <<"x", "'">>,
   ValueText |-> EmptyString, ValueNumber |-> 8, ValueBoolean |-> TRUE,
   ValueDate |-> 1, ValueJSON |-> S("{}"), Metadata |-> S("{}"),
   Language |-> <<"x", "'">>, UserIdentifier |-> <<"x", "'">>]

UpdateOf(P, v) ==
  [f \in UpdateFieldNames |->
     IF f \in P THEN Ptr(IF v[f] = 1 THEN NewValue[f] ELSE OtherValue[f]) ELSE Nil]

\* query parameters: text ones and dates
TextParam(i) == IF i = 1 THEN S("a") ELSE <<"x", "'">>

ListParams == {"source_type", "source_id", "field_id", "user_identifier"}

ListQueryOf(P, v, limit, offset) ==
  [source_type |-> IF "source_type" \in P THEN TextParam(v.source_type) ELSE EmptyString,
   source_id |-> IF "source_id" \in P THEN TextParam(v.source_id) ELSE EmptyString,
   field_id |-> IF "field_id" \in P THEN TextParam(v.field_id) ELSE EmptyString,
   user_identifier |-> IF "user_identifier" \in P THEN TextParam(v.user_identifier)
                       ELSE EmptyString,
   limit |-> limit, offset |-> offset]

SearchParams ==
  {"query", "source_type", "source_id", "field_id", "field_type",
   "user_identifier", "start_date", "end_date"}

SearchQueryOf(P, v, pageSize, page) ==
  [query |-> IF "query" \in P THEN TextParam(v.query) ELSE EmptyString,
   source_type |-> IF "source_type" \in P THEN TextParam(v.source_type) ELSE EmptyString,
   source_id |-> IF "source_id" \in P THEN TextParam(v.source_id) ELSE EmptyString,
   field_id |-> IF "field_id" \in P THEN TextParam(v.field_id) ELSE EmptyString,
   field_type |-> IF "field_type" \in P THEN TextParam(v.field_type) ELSE EmptyString,
   user_identifier |-> IF "user_identifier" \in P THEN TextParam(v.user_identifier)
                       ELSE EmptyString,
   start_date |-> IF "start_date" \in P THEN Num(v.start_date) ELSE Absent,
   end_date |-> IF "end_date" \in P THEN Num(v.end_date) ELSE Absent,
   pageSize |-> pageSize, page |-> page]

Limits == {Absent, Num(1), Num(2000)}
Offsets == {Absent, Num(1), Num(2)}
PageSizes == {Absent, Num(1), Num(100)}
Pages == {Absent, Num(1)}

Quiet == UNCHANGED <<api_keys, experience_data, now, pc, search, pending, admitted, last>>

\* PATCH twice, through validation to the repository
BuildUpdate ==
  /\ probe = NoProbe
  /\ \E P \in Shapes(UpdateFieldNames) : \E va, vb \in Choices(P) :
       LET a == UpdateOf(P, va)
           b == UpdateOf(P, vb)
       IN  /\ validateUpdateRequest(a) = ""
           /\ validateUpdateRequest(b) = ""
           /\ probe' = [op |-> "update", a |-> a, b |-> b,
                         sa |-> UpdateSent("id1", a, now),
                         sb |-> UpdateSent("id1", b, now)]
  /\ Quiet

\* GET /v1/experiences twice, through handler and service to the repository
BuildList ==
  /\ probe = NoProbe
  /\ \E P \in Shapes(ListParams) : \E va, vb \in Choices(P) :
       \E la, lb \in Limits, oa, ob \in Offsets :
         LET a == ListDefaults(ListFilters(ListQueryOf(P, va, la, oa)))
             b == ListDefaults(ListFilters(ListQueryOf(P, vb, lb, ob)))
         IN  probe' = [op |-> "list", a |-> a, b |-> b,
                       sa |-> ListSent(a), sb |-> ListSent(b)]
  /\ Quiet

\* GET /v1/experiences/search twice, likewise
BuildSearch ==
  /\ probe = NoProbe
  /\ \E P \in Shapes(SearchParams) : \E va, vb \in Choices(P) :
       \E sza, szb \in PageSizes, pa, pb \in Pages :
         LET a == SearchDefaults(SearchRequest(SearchQueryOf(P, va, sza, pa)))
             b == SearchDefaults(SearchRequest(SearchQueryOf(P, vb, szb, pb)))
         IN  probe' = [op |-> "search", a |-> a, b |-> b,
                       sa |-> SearchSent(a), sb |-> SearchSent(b)]
  /\ Quiet

NextQuery ==
  \/ BuildUpdate
  \/ BuildList
  \/ BuildSearch

SpecQuery == Init /\ [][NextQuery]_vars

\* ------------------------------------------- the routes that only read
\* records collected earlier: two of them collected at the same time, text
\* with "%" and "_" in it, text in capitals
WildcardCreate ==
  [BaseCreate EXCEPT !.CollectedAt = Ptr(1), !.SourceType = S("typeform"),
                     !.FieldID = S("q2"), !.ValueText = Ptr(<<"a", "_", "b">>),
                     !.UserIdentifier = Ptr(S("u1"))]

PercentCreate ==
  [BaseCreate EXCEPT !.CollectedAt = Ptr(2), !.SourceType = S("typeform"),
                     !.SourceID = Ptr(S("s2")), !.FieldID = S("q2"),
                     !.FieldLabel = Ptr(<<"5", "0", "%">>),
                     !.ValueText = Ptr(<<"A", "x", "b">>)]

StoredRows ==
  << SeedRow(FullCreate, "id1"), SeedRow(WildcardCreate, "id4"),
     SeedRow(PercentCreate, "id3"), SeedRow(BaseCreate, "id2") >>

\* the table after the first n of them were created
StoredTables == {{StoredRows[i] : i \in 1..n} : n \in 0..Len(StoredRows)}

FilterQueries ==
  { ZeroSearchQuery,
    [ZeroSearchQuery EXCEPT !.source_type = S("typeform")],
    [ZeroSearchQuery EXCEPT !.source_type = S("none")],
    [ZeroSearchQuery EXCEPT !.source_id = S("s1")],
    [ZeroSearchQuery EXCEPT !.field_id = S("q2")],
    [ZeroSearchQuery EXCEPT !.field_type = S("text")],
    [ZeroSearchQuery EXCEPT !.user_identifier = S("u1")],
    [ZeroSearchQuery EXCEPT !.source_type = S("formbricks"), !.field_type = S("text")],
    [ZeroSearchQuery EXCEPT !.source_type = S("typeform"), !.user_identifier = S("u1")],
    [ZeroSearchQuery EXCEPT !.start_date = Num(1)],
    [ZeroSearchQuery EXCEPT !.end_date = Num(1)],
    [ZeroSearchQuery EXCEPT !.start_date = Num(1), !.end_date = Num(1)],
    [ZeroSearchQuery EXCEPT !.start_date = Num(2), !.end_date = Num(0)],
    [ZeroSearchQuery EXCEPT !.start_date = Num(0), !.end_date = Num(2),
                            !.field_id = S("q1")] }

TextQueries ==
  { [ZeroSearchQuery EXCEPT !.query = S("HI")],
    [ZeroSearchQuery EXCEPT !.query = <<"a", "x">>],
    [ZeroSearchQuery EXCEPT !.query = S("q2")],
    [ZeroSearchQuery EXCEPT !.query = S("survey")],
    [ZeroSearchQuery EXCEPT !.query = S("zzz")],
    [ZeroSearchQuery EXCEPT !.query = S("%")],
    [ZeroSearchQuery EXCEPT !.query = S("_")],
    [ZeroSearchQuery EXCEPT !.query = <<"a", "_", "b">>],
    [ZeroSearchQuery EXCEPT !.query = S("HI"), !.field_type = S("text")],
    [ZeroSearchQuery EXCEPT !.query = S("q2"), !.end_date = Num(1)] }

PagingQueries ==
  { [ZeroSearchQuery EXCEPT !.pageSize = Num(0)],
    [ZeroSearchQuery EXCEPT !.pageSize = Num(1), !.page = Num(1)],
    [ZeroSearchQuery EXCEPT !.pageSize = Num(2), !.page = Num(0)],
    [ZeroSearchQuery EXCEPT !.pageSize = Num(100), !.page = Num(0)],
    [ZeroSearchQuery EXCEPT !.page = Num(1)] }

MalformedQueries ==
  { [ZeroSearchQuery EXCEPT !.start_date = Garbage],
    [ZeroSearchQuery EXCEPT !.end_date = Garbage],
    [ZeroSearchQuery EXCEPT !.start_date = Num(1), !.end_date = Garbage],
    [ZeroSearchQuery EXCEPT !.pageSize = Garbage],
    [ZeroSearchQuery EXCEPT !.pageSize = Num(0 - 1)],
    [ZeroSearchQuery EXCEPT !.page = Garbage],
    [ZeroSearchQuery EXCEPT !.page = Num(0 - 1)],
    [ZeroSearchQuery EXCEPT !.pageSize = Num(2), !.page = Num(0 - 2)],
    [ZeroSearchQuery EXCEPT !.query = S("HI"), !.page = Garbage] }

WindowQueries ==
  { [ZeroListQuery EXCEPT !.limit = l, !.offset = o] :
      l \in {Absent, Garbage, Num(0 - 1), Num(0), Num(1), Num(2), Num(MaxLimit),
             Num(MaxLimit + 1), Num(2 * MaxLimit)},
      o \in {Absent, Garbage, Num(0 - 1), Num(0), Num(1), Num(2), Num(5)} }
    \cup { [ZeroListQuery EXCEPT !.source_type = S("typeform")],
           [ZeroListQuery EXCEPT !.source_id = S("s1"), !.limit = Num(1)],
           [ZeroListQuery EXCEPT !.field_id = S("q2"), !.offset = Num(1)],
           [ZeroListQuery EXCEPT !.user_identifier = S("u1"), !.limit = Num(1),
                                 !.offset = Num(1)],
           [ZeroListQuery EXCEPT !.source_type = S("formbricks"),
                                 !.field_id = S("q2")] }

\* clients of list and search, holding the test key
ReadRequests ==
  [AllRequests EXCEPT
     !.headers = {<<"Bearer", " ">> \o TestAPIKey},
     !.list = WindowQueries,
     !.search = FilterQueries \cup TextQueries \cup PagingQueries
                  \cup MalformedQueries]

InitRead ==
  /\ api_keys = {APIKeyRow(TestAPIKey, TRUE, 0), APIKeyRow(RetiredAPIKey, FALSE, 0)}
  /\ experience_data \in StoredTables
  /\ now = 1
  /\ pc = [c \in Clients |-> "idle"]
  /\ search = [c \in Clients |-> NoSearch]
  /\ pending = [h \in KeyHashes |-> 0]
  /\ admitted = 0
  /\ last = Event("c1", "none", EmptyString, NoCall, NoResponse, NoData, 0)
  /\ probe = NoProbe

\* one client at a time on GET /v1/experiences and GET /v1/experiences/search
NextRead ==
  \/ Auth("c1", ReadRequests)
  \/ List("c1", ReadRequests)
  \/ SearchCount("c1", ReadRequests)
  \/ SearchData("c1")

SpecRead == InitRead /\ [][NextRead]_vars

\* --------------------------------------- SearchExperiences, called directly
MaxCount == 85       \* the largest count the repository answers with

\* page sizes and pages a caller of the service may pass
AskedSizes == (0 - 1)..(MaxPageSize + 2)
AskedPages == (0 - 1)..2

\* the filters of the requests that are paged through
PagedQueries ==
  { ZeroSearchQuery,
    [ZeroSearchQuery EXCEPT !.field_type = S("text")],
    [ZeroSearchQuery EXCEPT !.source_type = S("typeform")] }

\* the responses SearchExperiences can give to req on a table: the defaults,
\* the count query, the data query, the page arithmetic
SearchExperiences(rows, req) ==
  LET eff == SearchDefaults(req)
      totalCount == CountRows(rows, eff)
  IN  {SearchResponse(eff, result, totalCount) :
         result \in QueryResults(rows, SearchStatement(eff))}

\* one call of the service
ServiceSearch ==
  /\ probe = NoProbe
  /\ \E pageSize \in AskedSizes, page \in AskedPages :
       LET req == [SearchRequest(ZeroSearchQuery) EXCEPT !.PageSize = pageSize,
                                                          !.Page = page]
       IN  \E resp \in SearchExperiences(experience_data, req) :
             probe' = [op |-> "search", req |-> req, resps |-> <<resp>>]
  /\ Quiet

\* one call of the service for a page past the last one, the repository
\* answering with a count of its own and no rows
ServiceSearchCounted ==
  /\ probe = NoProbe
  /\ \E pageSize \in AskedSizes, totalCount \in 0..MaxCount :
       LET req == [SearchRequest(ZeroSearchQuery) EXCEPT !.PageSize = pageSize,
                                                          !.Page = totalCount]
       IN  probe' = [op |-> "counted", req |-> req,
                     resps |-> <<SearchResponse(SearchDefaults(req), <<>>, totalCount)>>]
  /\ Quiet

\* the responses to req asked for page p, page p + 1, ..., page n in turn
RECURSIVE PagesFrom(_, _, _, _)
PagesFrom(rows, req, p, n) ==
  IF p > n THEN {<<>>}
  ELSE {<<resp>> \o rest :
          resp \in SearchExperiences(rows, [req EXCEPT !.Page = p]),
          rest \in PagesFrom(rows, req, p + 1, n)}

\* a caller pages through a search: page 0, 1, ... up to the first page past
\* the last one, while the table stays as it is
ServiceSearchPages ==
  /\ probe = NoProbe
  /\ \E q \in PagedQueries, pageSize \in 1..Len(StoredRows) :
       LET req == [SearchRequest(q) EXCEPT !.PageSize = pageSize]
           n == TotalPages(CountRows(experience_data, req), pageSize)
       IN  \E resps \in PagesFrom(experience_data, req, 0, n) :
             probe' = [op |-> "pages", q |-> q, req |-> req, resps |-> resps]
  /\ Quiet

\* page numbers at the far end of int: the last one whose offset fits at the
\* largest page size and the one after it, a quarter and a half of the range
\* and their neighbours, the last two ints
FarPages ==
  { MaxInt \div MaxPageSize, (MaxInt \div MaxPageSize) + 1,
    2^(IntBits - 3), 2^(IntBits - 2) - 1, 2^(IntBits - 2), 2^(IntBits - 2) + 1,
    MaxInt - 1, MaxInt }

FarSizes == {Absent, Num(1), Num(2), Num(3), Num(4), Num(MaxPageSize), Num(100)}

\* GET /v1/experiences/search?page=..&pageSize=.. with a page number the
\* handler accepts, up to the data query: the store refuses a negative OFFSET
\* and Search returns the error
ServiceSearchFar ==
  /\ probe = NoProbe
  /\ \E page \in FarPages, pageSize \in FarSizes :
       LET q == [ZeroSearchQuery EXCEPT !.page = Num(page), !.pageSize = pageSize]
           req == SearchDefaults(SearchRequest(q))
           stmt == SearchStatement(req)
       IN  /\ SearchParseError(q) = ""
           /\ IF Bound(stmt, stmt.offset) < 0
                THEN probe' = [op |-> "far", q |-> q, req |-> req, stmt |-> stmt,
                               err |-> "failed to search experiences",
                               resps |-> <<>>]
                ELSE \E resp \in SearchExperiences(experience_data, SearchRequest(q)) :
                       probe' = [op |-> "far", q |-> q, req |-> req, stmt |-> stmt,
                                 err |-> "", resps |-> <<resp>>]
  /\ Quiet

NextService ==
  \/ ServiceSearch
  \/ ServiceSearchCounted
  \/ ServiceSearchPages
  \/ ServiceSearchFar

SpecService == InitRead /\ [][NextService]_vars

\* ------------------------------- UpdateExperience, called by two at a time
\* the requests the callers send: no field, one field, fields in common with
\* another request, a field that fails validation
ConcurrentUpdates ==
  { ZeroUpdate,
    [ZeroUpdate EXCEPT !.ValueText = Ptr(NewValue.ValueText)],
    [ZeroUpdate EXCEPT !.ValueText = Ptr(OtherValue.ValueText),
                       !.Language = Ptr(OtherValue.Language)],
    [ZeroUpdate EXCEPT !.SourceName = Ptr(NewValue.SourceName),
                       !.FieldID = Ptr(NewValue.FieldID)],
    [ZeroUpdate EXCEPT !.FieldID = Ptr(EmptyString)] }

NoUpdateCall ==
  [at |-> "idle", id |-> "", req |-> ZeroUpdate, t |-> 0, err |-> "",
   before |-> <<>>, after |-> <<>>]

InitUpdate ==
  /\ api_keys = {APIKeyRow(TestAPIKey, TRUE, 0), APIKeyRow(RetiredAPIKey, FALSE, 0)}
  /\ experience_data \in SeedTables
  /\ now = 1
  /\ pc = [c \in Clients |-> "idle"]
  /\ search = [c \in Clients |-> NoSearch]
  /\ pending = [h \in KeyHashes |-> 0]
  /\ admitted = 0
  /\ last = Event("c1", "none", EmptyString, NoCall, NoResponse, NoData, 0)
  /\ probe = [op |-> "updates", calls |-> [c \in Clients |-> NoUpdateCall],
              start |-> experience_data]

\* caller c enters UpdateExperience: validation, then Update as far as
\* args = append(args, time.Now()); the statement is not yet at the store
UpdateCall(c) ==
  /\ probe.op = "updates"
  /\ probe.calls[c].at # "sent"
  /\ admitted < MaxRequests
  /\ \E id \in UUIDs, req \in ConcurrentUpdates :
       LET err == validateUpdateRequest(req)
           call == [NoUpdateCall EXCEPT !.at = IF err # "" THEN "done" ELSE "sent",
                                        !.id = id, !.req = req, !.t = now,
                                        !.err = err]
       IN  probe' = [probe EXCEPT !.calls[c] = call]
  /\ admitted' = admitted + 1
  /\ UNCHANGED <<api_keys, experience_data, now, pc, search, pending, last>>

\* the store executes the statement of caller c (the UPDATE, or the SELECT
\* of GetByID when no field was sent) and the call returns
UpdateStore(c) ==
  /\ probe.op = "updates"
  /\ probe.calls[c].at = "sent"
  /\ \E dbFail \in BOOLEAN :
       LET call == probe.calls[c]
           out == RepoUpdate(experience_data, call.id, call.req, call.t, dbFail)
           old == {r \in experience_data : r.id = call.id}
       IN  /\ experience_data' = out.rows
           /\ probe' = [probe EXCEPT
                          !.calls[c] = [call EXCEPT
                             !.at = "done", !.err = out.err,
                             !.before = IF old = {} THEN <<>>
                                        ELSE <<CHOOSE r \in old : TRUE>>,
                             !.after = out.data]]
  /\ UNCHANGED <<api_keys, now, pc, search, pending, admitted, last>>

NextUpdate ==
  \/ \E c \in Clients : UpdateCall(c)
  \/ \E c \in Clients : UpdateStore(c)
  \/ Tick

SpecUpdate == InitUpdate /\ [][NextUpdate]_vars

\* ------------------------------------------------------------ properties
\* the step of client c in which a handler writes its response
HandlerStep(c) ==
  /\ pc[c] \in {"next", "search"}
  /\ pc'[c] = "idle"
  /\ last'.client = c
  /\ last'.event = "handler"

\* the step in which Auth takes a request
AuthStep == admitted' = admitted + 1

\* "Bearer <key>" with a non-empty key; the scheme in any letter case
BearerForm(h) ==
  /\ Len(h) >= 3
  /\ ToLowerTok(h[1]) = "bearer"
  /\ h[2] = " "

KeyOf(h) == SubSeq(h, 3, Len(h))

\* a record with the digest of the key exists and is active
Usable(keys, key) ==
  \E k \in keys : k.key_hash = HashAPIKey(key) /\ k.is_active

Authorized(keys, h) == BearerForm(h) /\ Usable(keys, KeyOf(h))

\* C1: a request reaches its handler, and a statement reaches
\* experience_data, only if its Authorization header is "Bearer <key>" with
\* a non-empty key that is usable in api_keys when Auth validates it; every
\* other request is answered 401 and sends no statement to experience_data.
C1_AuthGate ==
  [][ /\ \A c \in Clients :
           (pc[c] = "idle" /\ pc'[c] = "next") =>
             /\ AuthStep /\ last'.client = c /\ last'.event = "auth"
             /\ Authorized(api_keys, last'.hdr)
      /\ (AuthStep /\ ~Authorized(api_keys, last'.hdr)) =>
             /\ last'.resp.status = StatusUnauthorized
             /\ pc'[last'.client] = "idle"
             /\ last'.calls = 0
             /\ experience_data' = experience_data
      /\ (experience_data' # experience_data \/ last'.calls > last.calls) =>
             \E c \in Clients : pc[c] \in {"next", "search"} /\ last'.client = c
    ]_vars

C1_Witness ==
  /\ last.event = "auth"
  /\ last.hdr = <<"Bearer", " ">> \o TestAPIKey
  /\ last.resp.status = StatusUnauthorized
  /\ \E k \in api_keys : k.key_hash = HashAPIKey(TestAPIKey) /\ ~k.is_active
  /\ \E c \in Clients : pc[c] = "next"

\* the fields of a request that hold text, by repository method
TextFields(op) ==
  CASE op = "update" ->
         {"SourceType", "SourceID", "SourceName", "FieldID", "FieldLabel",
          "FieldType", "ValueText", "ValueJSON", "Metadata", "Language",
          "UserIdentifier"}
    [] op = "list" -> {"SourceType", "SourceID", "FieldID", "UserIdentifier"}
    [] op = "search" ->
         {"Query", "SourceType", "SourceID", "FieldID", "FieldType", "UserIdentifier"}

OptionalFields(op) ==
  CASE op = "update" -> UpdateFieldNames
    [] op = "list" -> TextFields("list")
    [] op = "search" -> TextFields("search") \cup {"StartDate", "EndDate"}

PresentIn(op, req) == {f \in OptionalFields(op) : req[f] # Nil}

\* which filters are present and, for List, whether limit and offset are > 0
ShapeOf(op, req) ==
  [present |-> PresentIn(op, req),
   limit |-> IF op = "list" THEN req.Limit > 0 ELSE TRUE,
   offset |-> IF op = "list" THEN req.Offset > 0 ELSE TRUE]

Range(seq) == {seq[i] : i \in 1..Len(seq)}

ValueTokens(op, req) ==
  UNION {Range(req[f][1]) : f \in TextFields(op) \cap PresentIn(op, req)}

TextTokens(sent) == UNION {Range(sent[i].text) : i \in 1..Len(sent)}

\* C2: two calls of List, Search or Update whose requests have the same
\* filters present (and, for List, agree on limit > 0 and on offset > 0) send
\* the same query text, statement by statement, and differ in the arguments
\* when the requests differ; no token of a text value occurs in a query text.
C2_TextDependsOnPresenceOnly ==
  probe.op # "none" =>
    /\ ShapeOf(probe.op, probe.a) = ShapeOf(probe.op, probe.b) =>
         /\ Len(probe.sa) = Len(probe.sb)
         /\ \A i \in 1..Len(probe.sa) : probe.sa[i].text = probe.sb[i].text
         /\ probe.a # probe.b =>
              \E i \in 1..Len(probe.sa) : probe.sa[i].args # probe.sb[i].args
    /\ ValueTokens(probe.op, probe.a) \cap TextTokens(probe.sa) = {}
    /\ ValueTokens(probe.op, probe.b) \cap TextTokens(probe.sb) = {}

\* two searches with the same filters, a quote in the text one of them looks
\* for, and different pages
C2_Witness ==
  /\ probe.op = "search"
  /\ PresentIn("search", probe.a) = {"Query", "StartDate"}
  /\ probe.a.Query = Ptr(S("a"))
  /\ probe.b.Query = Ptr(<<"x", "'">>)
  /\ probe.a.StartDate # probe.b.StartDate
  /\ probe.a.Page # probe.b.Page
  /\ probe.sa[2].args # probe.sb[2].args
  /\ probe.sa[2].text = probe.sb[2].text

\* C3 as claimed: every 401 of the authentication check is one and the same
\* response, whatever the cause.
UnknownKeyResponse ==
  AuthCheck(api_keys, <<"Bearer", " ", "k3">>, FALSE).resp

MissingRequired(req) ==
  \/ req.SourceType = EmptyString
  \/ req.FieldID = EmptyString
  \/ req.FieldType = EmptyString

\* C4: a create whose sourceType, fieldId or fieldType is empty is answered
\* 400 with a validation message, sends no statement to the store, and leaves
\* experience_data as it was.
C4_CreateRejectsMissingField ==
  [][ \A c \in Clients :
        ( /\ HandlerStep(c)
          /\ last'.call.op = "create"
          /\ last'.call.body.valid
          /\ MissingRequired(last'.call.body.req) ) =>
            /\ last'.resp.status = StatusBadRequest
            /\ last'.resp.message \in {"source_type is required",
                                       "field_id is required",
                                       "field_type is required"}
            /\ last'.calls = 0
            /\ experience_data' = experience_data
    ]_vars

C4_Witness ==
  /\ last.event = "handler"
  /\ last.call.op = "create"
  /\ last.call.body.valid
  /\ last.call.body.req.SourceType # EmptyString
  /\ last.call.body.req.FieldID # EmptyString
  /\ last.call.body.req.FieldType = EmptyString
  /\ last.resp.status = StatusBadRequest
  /\ experience_data # {}

\* C5: every persisted record has a non-empty sourceType, fieldId, fieldType.
C5_RequiredFieldsNonEmpty ==
  \A r \in experience_data :
    /\ r.source_type # EmptyString
    /\ r.field_id # EmptyString
    /\ r.field_type # EmptyString

C5_Witness ==
  /\ last.event = "handler"
  /\ last.call.op = "update"
  /\ last.resp.status = StatusOK
  /\ last.call.body.req.FieldID # Nil
  /\ last.call.body.req.FieldType # Nil
  /\ \E r \in experience_data :
       r.id = last.call.id /\ r.field_id = NewValue.FieldID

\* the column an update field is stored in
ColumnOf ==
  [SourceType |-> "source_type", SourceID |-> "source_id",
   SourceName |-> "source_name", FieldID |-> "field_id",
   FieldLabel |-> "field_label", FieldType |-> "field_type",
   ValueText |-> "value_text", ValueNumber |-> "value_number",
   ValueBoolean |-> "value_boolean", ValueDate |-> "value_date",
   ValueJSON |-> "value_json", Metadata |-> "metadata",
   Language |-> "language", UserIdentifier |-> "user_identifier"]

Supplied(req) == {f \in DOMAIN req : req[f] # Nil}

RowsWithId(rows, id) == {r \in rows : r.id = id}

\* an update that got as far as the store: the path id is a UUID, the body
\* decodes and passes validation
UpdateStep(c) ==
  /\ HandlerStep(c)
  /\ last'.call.op = "update"
  /\ ValidUUID(last'.call.id)
  /\ last'.call.body.valid
  /\ validateUpdateRequest(last'.call.body.req) = ""

DeleteStep(c) ==
  /\ HandlerStep(c)
  /\ last'.call.op = "delete"
  /\ ValidUUID(last'.call.id)

UniqueIds ==
  \A r1, r2 \in experience_data : r1.id = r2.id => r1 = r2

\* C6: no two persisted records share an id; an update neither adds nor
\* removes an id, and the record it returns has the id of the request.
C6_IdUniqueAndImmutable ==
  /\ []UniqueIds
  /\ [][ \A c \in Clients :
           (HandlerStep(c) /\ last'.call.op = "update") =>
             /\ {r.id : r \in experience_data'} = {r.id : r \in experience_data}
             /\ last'.resp.status = StatusOK =>
                  /\ Len(last'.data) = 1
                  /\ last'.data[1].id = last'.call.id
                  /\ last'.data[1] \in experience_data'
       ]_vars

C6_Witness ==
  /\ Cardinality(experience_data) = 2
  /\ last.event = "handler"
  /\ last.call.op = "update"
  /\ last.resp.status = StatusOK
  /\ Supplied(last.call.body.req) # {}
  /\ admitted = MaxRequests

\* C7: a successful update that supplies fields leaves every other record as
\* it was; in the record with the given id every supplied field holds the
\* supplied value, updated_at holds the time of the update, and every other
\* column keeps its value.
C7_UpdateFrame ==
  [][ \A c \in Clients :
        ( /\ UpdateStep(c)
          /\ Supplied(last'.call.body.req) # {}
          /\ last'.resp.status = StatusOK ) =>
            LET id == last'.call.id
                req == last'.call.body.req
                cols == {ColumnOf[f] : f \in Supplied(req)}
            IN  /\ \A r \in experience_data : r.id # id => r \in experience_data'
                /\ \A r \in experience_data' : r.id # id => r \in experience_data
                /\ \A old \in RowsWithId(experience_data, id) :
                     \E new \in RowsWithId(experience_data', id) :
                       /\ last'.data = <<new>>
                       /\ \A f \in Supplied(req) :
                            new[ColumnOf[f]] =
                              IF ColumnOf[f] \in NotNullCols
                                THEN req[f][1] ELSE req[f]
                       /\ new.updated_at = now
                       /\ \A col \in ColumnSet \ (cols \cup {"updated_at"}) :
                            new[col] = old[col]
                /\ Cardinality(RowsWithId(experience_data, id)) = 1
                /\ Cardinality(RowsWithId(experience_data', id)) = 1
    ]_vars

C7_Witness ==
  /\ Cardinality(experience_data) = 2
  /\ last.event = "handler"
  /\ last.call.op = "update"
  /\ last.resp.status = StatusOK
  /\ Cardinality(Supplied(last.call.body.req)) = 3
  /\ last.data[1].updated_at > last.data[1].created_at

\* C8: an update that supplies no field, on an id that exists and with the
\* store answering, is answered 200 with the record as stored, and
\* experience_data (updated_at included) is as it was.
C8_EmptyUpdateIsNoOp ==
  [][ \A c \in Clients :
        ( /\ UpdateStep(c)
          /\ Supplied(last'.call.body.req) = {}
          /\ RowsWithId(experience_data, last'.call.id) # {}
          /\ ~last'.call.dbFail ) =>
            /\ last'.resp.status = StatusOK
            /\ Len(last'.data) = 1
            /\ last'.data[1] \in RowsWithId(experience_data, last'.call.id)
            /\ experience_data' = experience_data
    ]_vars

C8_Witness ==
  /\ last.event = "handler"
  /\ last.call.op = "update"
  /\ last.call.body.valid
  /\ Supplied(last.call.body.req) = {}
  /\ last.resp.status = StatusOK
  /\ Len(last.data) = 1
  /\ last.data[1].updated_at < now

\* C9: an update on an id with no record, with or without fields, is
\* answered 404 (NotFound) and creates no record.
C9_UpdateMissingIs404 ==
  [][ \A c \in Clients :
        ( /\ UpdateStep(c)
          /\ RowsWithId(experience_data, last'.call.id) = {}
          /\ ~last'.call.dbFail ) =>
            /\ last'.resp.status = StatusNotFound
            /\ experience_data' = experience_data
    ]_vars

\* what Update answers instead: 400 "update_failed" with the message of NotFound
C9_Witness ==
  /\ last.event = "handler"
  /\ last.call.op = "update"
  /\ ValidUUID(last.call.id)
  /\ last.call.body.valid
  /\ Supplied(last.call.body.req) # {}
  /\ ~last.call.dbFail
  /\ last.resp = RespondError(StatusBadRequest, "update_failed", "experience not found")
  /\ RowsWithId(experience_data, last.call.id) = {}

\* C10: a delete on an id with no record is answered 404, with the message
\* of NotFound when the store answered, and leaves experience_data as it
\* was; so it is on every call.
C10_DeleteMissingIs404 ==
  [][ \A c \in Clients :
        ( /\ DeleteStep(c)
          /\ RowsWithId(experience_data, last'.call.id) = {} ) =>
            /\ last'.resp.status = StatusNotFound
            /\ ~last'.call.dbFail => last'.resp.message = "experience not found"
            /\ experience_data' = experience_data
    ]_vars

\* a second delete of the id a first delete removed
C10_Witness ==
  /\ last.event = "handler"
  /\ last.call.op = "delete"
  /\ ~last.call.dbFail
  /\ last.resp.status = StatusNotFound
  /\ admitted = MaxRequests
  /\ \E t \in SeedTables :
       /\ RowsWithId(t, last.call.id) # {}
       /\ experience_data = t \ RowsWithId(t, last.call.id)

\* C11: a successful delete removes the record with the given id and nothing
\* else.  While no record has an id, every Get and Delete of that id is
\* answered 404 (NotFound), no List or Search result holds a record with it,
\* and only a create that returns the id brings it back.
C11_DeleteRemovesExactlyOne ==
  [][ /\ \A c \in Clients :
           (DeleteStep(c) /\ last'.resp.status = StatusNoContent) =>
             /\ RowsWithId(experience_data, last'.call.id) # {}
             /\ experience_data' =
                  experience_data \ RowsWithId(experience_data, last'.call.id)
      /\ \A id \in UUIDs :
           RowsWithId(experience_data, id) = {} =>
             /\ \A c \in Clients :
                  ( /\ HandlerStep(c)
                    /\ last'.call.op \in {"get", "delete"}
                    /\ last'.call.id = id ) =>
                      /\ last'.resp.status = StatusNotFound
                      /\ ~last'.call.dbFail =>
                           last'.resp.message = "experience not found"
             /\ \A c \in Clients :
                  (HandlerStep(c) /\ last'.call.op \in {"list", "search"}) =>
                    \A i \in 1..Len(last'.data) : last'.data[i].id # id
             /\ RowsWithId(experience_data', id) # {} =>
                  \E c \in Clients :
                    /\ HandlerStep(c)
                    /\ last'.call.op = "create"
                    /\ last'.resp.status = StatusCreated
                    /\ last'.data[1].id = id
    ]_vars

\* a list after a delete: of two records the other one is all it returns
C11_Witness ==
  /\ last.event = "handler"
  /\ last.call.op = "list"
  /\ last.resp.status = StatusOK
  /\ Len(last.data) = 1
  /\ admitted = MaxRequests
  /\ \E t \in SeedTables, id \in UUIDs :
       /\ Cardinality(t) = 2
       /\ experience_data = t \ RowsWithId(t, id)
       /\ last.data[1].id # id

\* a create answered 201, a get answered 200
CreatedStep(c) ==
  /\ HandlerStep(c)
  /\ last'.call.op = "create"
  /\ last'.resp.status = StatusCreated

GotStep(c) ==
  /\ HandlerStep(c)
  /\ last'.call.op = "get"
  /\ last'.resp.status = StatusOK

SearchCounted ==
  /\ last.call.op = "search"
  /\ \/ last.event = "query"
     \/ last.event = "handler" /\ last.resp.status = StatusOK

Searched ==
  /\ last.event = "handler"
  /\ last.call.op = "search"
  /\ last.resp.status = StatusOK

\* the filters of a query string, read against a record
FilterMatches(r, q) ==
  /\ q.source_type # EmptyString => r.source_type = q.source_type
  /\ q.source_id # EmptyString => r.source_id = Ptr(q.source_id)
  /\ q.field_id # EmptyString => r.field_id = q.field_id
  /\ q.field_type # EmptyString => r.field_type = q.field_type
  /\ q.user_identifier # EmptyString => r.user_identifier = Ptr(q.user_identifier)
  /\ q.start_date # Absent => r.collected_at >= q.start_date.n
  /\ q.end_date # Absent => r.collected_at <= q.end_date.n

\* the records the search text of q selects when it is the only parameter
MatchedByText(rows, q) ==
  Selected(rows, CountStatement(SearchRequest([ZeroSearchQuery EXCEPT !.query = q.query])))

\* C13: the records a search matches are the persisted records that satisfy
\* each filter present (equality on source_type, source_id, field_id,
\* field_type, user_identifier; start_date <= collected_at <= end_date) and
\* the search text; an absent filter excludes nothing.  totalCount is their
\* number, data holds only such records, and all of them when they fit on
\* the page asked for.
C13_SearchMatchesFilters ==
  SearchCounted =>
    LET q == last.call.q
        expected == {r \in MatchedByText(experience_data, q) : FilterMatches(r, q)}
    IN  /\ last.call.total = Cardinality(expected)
        /\ Searched =>
             /\ Range(last.data) \subseteq expected
             /\ (last.call.req.Page = 0
                   /\ last.call.req.PageSize >= Cardinality(expected)) =>
                  Range(last.data) = expected

\* of four records, the two collected at time 1 answer start_date = end_date = 1
C13_Witness ==
  /\ Searched
  /\ last.call.q.start_date = Num(1)
  /\ last.call.q.end_date = Num(1)
  /\ Cardinality(experience_data) = 4
  /\ last.call.total = 2
  /\ Len(last.data) = 2

\* q occurs in v as it stands, letter case ignored
Contains(v, q) ==
  \E i \in 1..(Len(v) - Len(q) + 1) :
    ToLower(SubSeq(v, i, i + Len(q) - 1)) = ToLower(q)

ContainsText(r, q) ==
  \E i \in 1..Len(TextCols) :
    LET col == TextCols[i]
    IN  IF col \in NotNullCols THEN Contains(r[col], q)
        ELSE r[col] # Nil /\ Contains(r[col][1], q)

\* C14: with a non-empty search text q a record is matched iff q occurs,
\* ignoring case, as a literal substring of value_text, field_label,
\* source_name or field_id, whatever characters q holds ("%" and "_"
\* included); without q the text imposes nothing; a q that matches no record
\* is answered 200 with totalCount 0 and no data.
C14_TextIsLiteralSubstring ==
  SearchCounted =>
    LET q == last.call.q
        expected == {r \in experience_data :
                       /\ FilterMatches(r, q)
                       /\ q.query # EmptyString => ContainsText(r, q.query)}
    IN  /\ last.call.total = Cardinality(expected)
        /\ Searched =>
             /\ Range(last.data) \subseteq expected
             /\ (last.call.req.Page = 0
                   /\ last.call.req.PageSize >= Cardinality(expected)) =>
                  Range(last.data) = expected

\* what Search answers to query=%: every record, though one holds a "%"
C14_Witness ==
  /\ Searched
  /\ last.call.q = [ZeroSearchQuery EXCEPT !.query = S("%")]
  /\ Cardinality(experience_data) = 4
  /\ Cardinality({r \in experience_data : ContainsText(r, S("%"))}) = 1
  /\ last.call.total = 4
  /\ Len(last.data) = 4

\* a parameter that was sent and is no number (no timestamp); a negative number
Unparsable(param) == param.s \notin {"", "num"}

Negative(param) == param.s = "num" /\ param.n < 0

Malformed(q) ==
  \/ Unparsable(q.page) \/ Negative(q.page)
  \/ Unparsable(q.pageSize) \/ Negative(q.pageSize)
  \/ Unparsable(q.start_date)
  \/ Unparsable(q.end_date)

\* C18: a search whose page or pageSize is no number or is negative, or
\* whose start_date or end_date is no RFC 3339 timestamp, is answered 400 by
\* the handler: no statement is sent to the store and no search is under way.
C18_SearchRejectsMalformed ==
  /\ (last.call.op = "search" /\ Malformed(last.call.q)) =>
       /\ last.event = "handler"
       /\ last.resp.status = StatusBadRequest
       /\ last.resp.kind = "json"
       /\ last.calls = 0
       /\ pc[last.client] = "idle"
  /\ \A c \in Clients : search[c] # NoSearch => ~Malformed(search[c].q)

\* page=-2 with a pageSize in range, on a table with records
C18_Witness ==
  /\ last.event = "handler"
  /\ last.call.op = "search"
  /\ last.call.q.page = Num(0 - 2)
  /\ last.call.q.pageSize = Num(2)
  /\ last.resp = RespondError(StatusBadRequest, "invalid_parameter",
                              "Invalid page parameter")
  /\ experience_data # {}

Listed ==
  /\ last.event = "handler"
  /\ last.call.op = "list"
  /\ last.resp.status = StatusOK

\* the filters of a list query string, read against a record
ListMatches(r, q) ==
  /\ q.source_type # EmptyString => r.source_type = q.source_type
  /\ q.source_id # EmptyString => r.source_id = Ptr(q.source_id)
  /\ q.field_id # EmptyString => r.field_id = q.field_id
  /\ q.user_identifier # EmptyString => r.user_identifier = Ptr(q.user_identifier)

Newer(r, M) == {x \in M : x.collected_at > r.collected_at}

NotOlder(r, M) == {x \in M : x.collected_at >= r.collected_at}

\* data is the window of at most lim records that starts after the first off
\* records of M put in descending order of collected_at: its length, its
\* records (each once), and the positions 1, 2, ... each of them can take
IsWindow(data, M, off, lim) ==
  /\ Len(data) = IF Cardinality(M) - off < 0 THEN 0
                 ELSE Min(lim, Cardinality(M) - off)
  /\ \A i \in 1..Len(data) : data[i] \in M
  /\ \A i, j \in 1..Len(data) : i # j => data[i] # data[j]
  /\ \A i \in 1..Len(data) :
       /\ Cardinality(Newer(data[i], M)) < off + i
       /\ off + i <= Cardinality(NotOlder(data[i], M))

\* C19: a list uses limit 100 when the limit asked for is absent or <= 0,
\* 1000 when it is above 1000, and the value asked for otherwise; the offset
\* is the one asked for, 0 when none is; the result is the window of at most
\* limit records from position offset of the filtered records in descending
\* order of collected_at, never more than 1000 records.
C19_ListWindow ==
  Listed =>
    LET q == last.call.q
        asked == IF q.limit.s = "num" THEN q.limit.n ELSE 0
        limit == IF asked <= 0 THEN 100 ELSE IF asked > 1000 THEN 1000 ELSE asked
        offset == IF q.offset.s = "num" /\ q.offset.n >= 0 THEN q.offset.n ELSE 0
        M == {r \in experience_data : ListMatches(r, q)}
    IN  /\ last.call.filters.Limit = limit
        /\ last.call.filters.Offset = offset
        /\ IsWindow(last.data, M, offset, limit)
        /\ Len(last.data) <= 1000

\* limit=1&offset=1 on four records, two of them collected at the same time
C19_Witness ==
  /\ Listed
  /\ last.call.q = [ZeroListQuery EXCEPT !.limit = Num(1), !.offset = Num(1)]
  /\ Cardinality(experience_data) = 4
  /\ Len(last.data) = 1
  /\ last.data[1].collected_at = 1

\* C20: in every array a list or a search returns, each record's
\* collected_at is >= that of the record after it.
C20_ResultsDescending ==
  (Listed \/ Searched) =>
    \A i \in 1..(Len(last.data) - 1) :
      last.data[i].collected_at >= last.data[i + 1].collected_at

\* four records come back: the newest, the two collected together, the oldest
C20_Witness ==
  /\ Listed \/ Searched
  /\ Len(last.data) = 4
  /\ last.data[1].collected_at > last.data[2].collected_at
  /\ last.data[2].collected_at = last.data[3].collected_at
  /\ last.data[2].id = "id4"
  /\ last.data[3].collected_at > last.data[4].collected_at

\* ceil(T / s): the least n with n * s >= T
Ceiling(T, s) == CHOOSE n \in 0..T : n * s >= T /\ \A m \in 0..(n - 1) : m * s < T

\* C15: whatever page size is asked for, the page size SearchExperiences
\* works with is in 1..40, and for every count T >= 0 the totalPages it
\* returns is ceil(T / pageSize), which is 0 when T = 0.
C15_TotalPagesIsCeiling ==
  probe.op \in {"search", "counted", "pages"} =>
    \A k \in 1..Len(probe.resps) :
      LET r == probe.resps[k]
      IN  /\ r.PageSize \in 1..40
          /\ r.TotalPages = Ceiling(r.TotalCount, r.PageSize)
          /\ r.TotalCount = 0 => r.TotalPages = 0

\* 81 records at 40 a page: three pages
C15_Witness ==
  /\ probe.op = "counted"
  /\ probe.resps[1].TotalCount = 81
  /\ probe.resps[1].PageSize = 40
  /\ probe.resps[1].TotalPages = 3

\* a search paged through: its matching records, their number, the pages
PagedMatches == {r \in experience_data : FilterMatches(r, probe.q)}

PagedPages == Ceiling(Cardinality(PagedMatches), probe.req.PageSize)

PageData(p) == probe.resps[p + 1].Data

\* page p is the window p*s .. min((p+1)*s, T)-1 of the matching records in
\* descending order of collected_at: s records before the last page,
\* T - (totalPages-1)*s (between 1 and s) on the last one, none after it
PagesAreWindows ==
  LET s == probe.req.PageSize
      T == Cardinality(PagedMatches)
      n == PagedPages
  IN  /\ Len(probe.resps) = n + 1
      /\ \A p \in 0..n :
           /\ probe.resps[p + 1].TotalCount = T
           /\ probe.resps[p + 1].TotalPages = n
           /\ IsWindow(PageData(p), PagedMatches, p * s, s)
           /\ p < n - 1 => Len(PageData(p)) = s
           /\ p = n - 1 => /\ Len(PageData(p)) = T - (n - 1) * s
                           /\ Len(PageData(p)) \in 1..s
           /\ p >= n => Len(PageData(p)) = 0

\* the pages 0..totalPages-1 hold every matching record, each on one page
EachRecordOnce ==
  \A r \in PagedMatches :
    Cardinality({p \in 0..(PagedPages - 1) : r \in Range(PageData(p))}) = 1

DistinctTimes ==
  \A x, y \in PagedMatches : x # y => x.collected_at # y.collected_at

\* C16 as claimed: with the table unchanging, page p of a search is the
\* window p*s .. min((p+1)*s, T)-1 of the matching records ordered by
\* collected_at descending, ties in one fixed order; the pages have s, ..., s,
\* T-(totalPages-1)*s, 0 records, and the pages 0..totalPages-1 together hold
\* every matching record exactly once.
C16_PagesPartitionMatches ==
  probe.op = "pages" => PagesAreWindows /\ EachRecordOnce

\* C16 amended: every page is such a window and the page sizes are as
\* claimed, with records of equal collected_at in an order that may change
\* from one request to the next; the pages 0..totalPages-1 hold every
\* matching record exactly once when no two matching records have the same
\* collected_at.
C16_PagesPartitionDistinctTimes ==
  probe.op = "pages" => PagesAreWindows /\ (DistinctTimes => EachRecordOnce)

\* three matching records collected at different times, two a page
C16_Witness ==
  /\ probe.op = "pages"
  /\ probe.q.field_type = S("text")
  /\ probe.req.PageSize = 2
  /\ Cardinality(PagedMatches) = 3
  /\ DistinctTimes
  /\ Len(PageData(0)) = 2
  /\ Len(PageData(1)) = 1
  /\ Len(PageData(2)) = 0

\* C17: SearchExperiences works with page size 20 when the one asked for is
\* <= 0, with 40 when it is above 40, with the one asked for otherwise, and
\* with page 0 when the page asked for is negative; page and pageSize of the
\* response are these values, and data never holds more than pageSize records.
C17_PageSizeAndPageClamped ==
  probe.op \in {"search", "counted"} =>
    LET asked == probe.req
        r == probe.resps[1]
        size == IF asked.PageSize <= 0 THEN 20
                ELSE IF asked.PageSize > 40 THEN 40 ELSE asked.PageSize
        page == IF asked.Page < 0 THEN 0 ELSE asked.Page
    IN  /\ r.PageSize = size
        /\ r.Page = page
        /\ Len(r.Data) <= size

\* page -1 with 3 a page on four records: page 0 with three of them
C17_Witness ==
  /\ probe.op = "search"
  /\ probe.req.Page = 0 - 1
  /\ probe.req.PageSize = 3
  /\ Cardinality(experience_data) = 4
  /\ probe.resps[1].Page = 0
  /\ probe.resps[1].PageSize = 3
  /\ Len(probe.resps[1].Data) = 3

\* a handler has answered after a statement it sent to experience_data failed
\* with an error other than "no rows"
StoreFailedInHandler ==
  /\ last.event = "handler"
  /\ last.call.dbFail
  /\ last.calls > 0

\* Auth has answered a request that carries the usable key: with the key
\* table as set up, only a failed lookup keeps such a request out
StoreFailedInAuth ==
  /\ last.event = "auth"
  /\ last.hdr = <<"Bearer", " ">> \o TestAPIKey
  /\ last.resp.status # 0

\* C21: when a store call of create, get, list, update, delete, search or
\* of the key validation fails with an error other than "no rows", the
\* response is 500, never 400, 401 or 404.
C21_StoreFailureIs500 ==
  (StoreFailedInHandler \/ StoreFailedInAuth) =>
    last.resp.status = StatusInternalServerError

\* a create with a valid body whose INSERT failed, answered 400
C21_Witness ==
  /\ StoreFailedInHandler
  /\ last.call.op = "create"
  /\ last.call.body.valid
  /\ validateCreateRequest(last.call.body.req) = ""
  /\ last.resp.status = StatusBadRequest
  /\ last.resp.error = "creation_failed"

\* the response, the data in it and the table are those of outcome out
Answered(out) ==
  /\ last'.resp = out.resp
  /\ last'.data = out.data
  /\ experience_data' = out.rows

\* what the handler of the request recorded in last' answers, computed from
\* the request, the clock, experience_data and the store's answer alone
AnsweredFromRequest ==
  LET call == last'.call
  IN  CASE call.op = "create" ->
             \E newId \in UUIDs :
               Answered(HandleCreate(experience_data, call.body, now, newId, call.dbFail))
        [] call.op = "get" ->
             Answered(HandleGet(experience_data, call.id, call.dbFail))
        [] call.op = "list" ->
             \E result \in QueryResults(experience_data, ListStatement(call.filters)) :
               Answered(HandleList(experience_data, call.q, result, call.dbFail))
        [] call.op = "update" ->
             Answered(HandleUpdate(experience_data, call.id, call.body, now, call.dbFail))
        [] call.op = "delete" ->
             Answered(HandleDelete(experience_data, call.id, call.dbFail))
        [] call.op = "search" ->
             /\ experience_data' = experience_data
             /\ IF SearchParseError(call.q) # ""
                  THEN last'.resp.status = StatusBadRequest
                ELSE IF call.dbFail
                  THEN last'.resp.status = StatusInternalServerError
                ELSE /\ last'.resp = RespondSuccess(StatusOK)
                     /\ last'.data \in QueryResults(experience_data,
                                                   SearchStatement(call.req))

\* a last-used update runs, or a key record changes
KeyStep == pending' # pending \/ api_keys' # api_keys

\* C22: once Auth has validated a key the request is due at its handler in
\* the same step, with the last-used update started and not yet run; the
\* handler can answer while updates are outstanding; what it answers is
\* determined by the request and experience_data, whatever the state of the
\* updates and of api_keys; a step in which an update runs, with success or
\* with an error, writes no response and touches no request, also when
\* several updates of one key are outstanding.
C22_LastUsedUpdateNeverSurfaces ==
  [][ /\ \A c \in Clients :
           (pc[c] = "idle" /\ pc'[c] = "next") =>
             /\ api_keys' = api_keys
             /\ \E h \in KeyHashes :
                  /\ h = HashAPIKey(KeyOf(last'.hdr))
                  /\ pending' = [pending EXCEPT ![h] = @ + 1]
      /\ \A c \in Clients : HandlerStep(c) =>
             /\ AnsweredFromRequest
             /\ pending' = pending
             /\ api_keys' = api_keys
      /\ (KeyStep /\ ~AuthStep) =>
             /\ last' = last
             /\ pc' = pc
             /\ search' = search
             /\ experience_data' = experience_data
    ]_vars

\* a handler has answered 201 while the two last-used updates of the one
\* key, started by two concurrent requests, have not run
C22_Witness ==
  /\ last.event = "handler"
  /\ last.resp.status = StatusCreated
  /\ pending[HashAPIKey(TestAPIKey)] = 2
  /\ \A k \in api_keys : k.last_used_at = Nil

\* a call of UpdateExperience that sent at least one field and returned the
\* updated record
ChangedRecord(call) ==
  /\ call.at = "done"
  /\ call.err = ""
  /\ Supplied(call.req) # {}

\* C23: every UpdateExperience that changes at least one field leaves the
\* record with an updated_at greater than the one it had before, and not less
\* than created_at, in every sequence and interleaving of updates of one id.
C23_UpdatedAtAdvances ==
  probe.op = "updates" =>
    \A c \in Clients :
      ChangedRecord(probe.calls[c]) =>
        /\ probe.calls[c].after[1].updated_at > probe.calls[c].before[1].updated_at
        /\ probe.calls[c].after[1].updated_at >= probe.calls[c].after[1].created_at

\* two calls on one id: the one that read the clock first reached the store
\* last and set updated_at back
C23_Witness ==
  /\ probe.op = "updates"
  /\ \E c, d \in Clients :
       /\ c # d
       /\ ChangedRecord(probe.calls[c])
       /\ ChangedRecord(probe.calls[d])
       /\ probe.calls[c].id = probe.calls[d].id
       /\ probe.calls[c].t < probe.calls[d].t
       /\ probe.calls[c].before[1].updated_at = probe.calls[d].t
       /\ probe.calls[c].after[1].updated_at = probe.calls[c].t
       /\ probe.calls[c].after[1] \in experience_data

\* the routes behind Auth and the last-used updates, with the clock and the
\* key table left as they are
NextKeysLive ==
  \/ \E c \in Clients : Auth(c, KeyRequests)
  \/ \E c \in Clients : Create(c, KeyRequests)
  \/ \E c \in Clients : Get(c, KeyRequests)
  \/ \E c \in Clients : List(c, KeyRequests)
  \/ \E c \in Clients : Update(c, KeyRequests)
  \/ \E c \in Clients : Delete(c, KeyRequests)
  \/ \E c \in Clients : SearchCount(c, KeyRequests)
  \/ \E c \in Clients : SearchData(c)
  \/ \E h \in KeyHashes : UpdateLastUsedAt(h)

\* the goroutine of a last-used update, once started, is scheduled and its
\* statement is answered by the store, with success or with an error
SpecKeysLive ==
  /\ Init
  /\ [][NextKeysLive]_vars
  /\ \A h \in KeyHashes : WF_vars(UpdateLastUsedAt(h))

\* C24: a request that Auth passes on starts exactly one last-used update,
\* for the hash of the key it validated; a request Auth answers itself
\* starts none, and no handler starts or ends one; every update started runs
\* to its end, whatever has become of the request that started it.
C24_OneUpdatePerAuthenticatedRequest ==
  /\ [][ /\ AuthStep =>
              IF pc'[last'.client] = "next"
                THEN pending' = [pending EXCEPT
                                   ![HashAPIKey(KeyOf(last'.hdr))] = @ + 1]
                ELSE pending' = pending
         /\ ~AuthStep =>
              \/ pending' = pending
              \/ \E h \in KeyHashes :
                   /\ pending[h] > 0
                   /\ pending' = [pending EXCEPT ![h] = @ - 1]
                   /\ pc' = pc
       ]_vars
  /\ \A h \in KeyHashes : \A n \in 1..(MaxRequests + 1) :
       (pending[h] = n) ~> (pending[h] = n - 1)

\* the request has been answered by its handler and no request is in flight,
\* while the update it started has not run yet
C24_Witness ==
  /\ last.event = "handler"
  /\ last.resp.status = StatusOK
  /\ \A c \in Clients : pc[c] = "idle"
  /\ admitted = 1
  /\ pending[HashAPIKey(TestAPIKey)] = 1
  /\ \A k \in api_keys : k.last_used_at = Nil

\* the number of records in the pages from the i-th response on
RECURSIVE ReturnedFrom(_, _)
ReturnedFrom(resps, i) ==
  IF i > Len(resps) THEN 0
  ELSE Len(resps[i].Data) + ReturnedFrom(resps, i + 1)

\* C25: the count query and the data query of a search carry the same
\* predicates and the same filter arguments, the data query two more (limit
\* and offset); with the table unchanging, totalCount of every page is the
\* number of records the data query returns over all the pages together.
C25_CountMatchesPages ==
  /\ probe.op \in {"search", "counted", "pages"} =>
       LET eff == SearchDefaults(probe.req)
           count == CountStatement(eff)
           data == SearchStatement(eff)
       IN  /\ count.where = data.where
           /\ Len(data.args) = Len(count.args) + 2
           /\ SubSeq(data.args, 1, Len(count.args)) = count.args
  /\ probe.op = "pages" =>
       \A i \in 1..Len(probe.resps) :
         probe.resps[i].TotalCount = ReturnedFrom(probe.resps, 1)

\* a filter that three of the four records pass, paged through two a page
C25_Witness ==
  /\ probe.op = "pages"
  /\ probe.q.field_type = S("text")
  /\ Cardinality(experience_data) = 4
  /\ probe.req.PageSize = 2
  /\ Len(CountStatement(probe.req).args) = 1
  /\ probe.resps[1].TotalCount = 3
  /\ ReturnedFrom(probe.resps, 1) = 3

\* the record after an update that supplies the fields of call u: each
\* supplied field holds the value sent, updated_at the time sent with it,
\* every other column what it held
RecordAfter(row, u) ==
  [col \in ColumnSet |->
     IF col = "updated_at" THEN u.t
     ELSE IF \E f \in Supplied(u.req) : ColumnOf[f] = col
       THEN LET f == CHOOSE g \in Supplied(u.req) : ColumnOf[g] = col
            IN  IF col \in NotNullCols THEN u.req[f][1] ELSE u.req[f]
     ELSE row[col]]

\* the table after call u, applied whole if it changed a record and not at
\* all otherwise
TableAfter(rows, u) ==
  IF ChangedRecord(u)
    THEN {IF r.id = u.id THEN RecordAfter(r, u) ELSE r : r \in rows}
    ELSE rows

\* both callers have called UpdateExperience once and both calls are back
BothReturned ==
  /\ probe.op = "updates"
  /\ admitted = 2
  /\ \A c \in Clients : probe.calls[c].at = "done"

\* C26: when two UpdateExperience calls have run, in any interleaving, the
\* table is the one that results from applying the two updates whole, one
\* after the other, in one of the two orders: a field only one of them sent
\* holds its value, a field both sent holds the value of the one applied
\* last, and a call that failed has changed nothing.
C26_ConcurrentUpdatesSerialize ==
  BothReturned =>
    LET a == probe.calls["c1"]
        b == probe.calls["c2"]
    IN  /\ \/ experience_data = TableAfter(TableAfter(probe.start, a), b)
           \/ experience_data = TableAfter(TableAfter(probe.start, b), a)
        /\ (ChangedRecord(a) /\ ChangedRecord(b) /\ a.id = b.id) =>
             \A r \in experience_data : r.id = a.id =>
               /\ \A f \in Supplied(a.req) \ Supplied(b.req) :
                    r[ColumnOf[f]] = RecordAfter(r, a)[ColumnOf[f]]
               /\ \A f \in Supplied(b.req) \ Supplied(a.req) :
                    r[ColumnOf[f]] = RecordAfter(r, b)[ColumnOf[f]]
               /\ \/ \A f \in Supplied(a.req) \cap Supplied(b.req) :
                       r[ColumnOf[f]] = RecordAfter(r, a)[ColumnOf[f]]
                  \/ \A f \in Supplied(a.req) \cap Supplied(b.req) :
                       r[ColumnOf[f]] = RecordAfter(r, b)[ColumnOf[f]]

\* two calls on one record, value_text sent by both and language by one;
\* the first read the clock before the second and reached the store after
\* it: the record holds the value_text and the language of the first, the
\* one applied last, over the value_text the second had written
C26_Witness ==
  /\ BothReturned
  /\ ChangedRecord(probe.calls["c1"])
  /\ ChangedRecord(probe.calls["c2"])
  /\ probe.calls["c1"].id = probe.calls["c2"].id
  /\ probe.calls["c1"].t < probe.calls["c2"].t
  /\ Supplied(probe.calls["c1"].req) = {"ValueText", "Language"}
  /\ Supplied(probe.calls["c2"].req) = {"ValueText"}
  /\ probe.calls["c1"].before = probe.calls["c2"].after
  /\ probe.calls["c1"].before[1].value_text = Ptr(NewValue.ValueText)
  /\ \E r \in experience_data :
       /\ r.id = probe.calls["c1"].id
       /\ r.language = Ptr(OtherValue.Language)
       /\ r.value_text = Ptr(OtherValue.ValueText)

\* the placeholders of a statement in the order they stand in its text
PhsOf(clauses) == [i \in 1..Len(clauses) |-> clauses[i].ph]

Placeholders(stmt) ==
  CASE stmt.verb = "UPDATE" -> PhsOf(stmt.set) \o PhsOf(stmt.where)
    [] stmt.verb = "COUNT" -> PhsOf(stmt.where)
    [] stmt.verb = "SELECT" ->
         PhsOf(stmt.where)
           \o (IF stmt.limit # "" THEN <<stmt.limit>> ELSE <<>>)
           \o (IF stmt.offset # "" THEN <<stmt.offset>> ELSE <<>>)

\* $1, $2, ..., $n with n the number of arguments
Consecutive(stmt) ==
  Placeholders(stmt) = [k \in 1..Len(stmt.args) |-> Dollar(k)]

\* the value a predicate or assignment is about, read from the request: the
\* field stored in its column; the start or end date for collected_at; the
\* search text between two "%" for the ILIKE predicate; the clock for
\* updated_at
ValueFor(req, clause, t) ==
  IF clause.op = "ILIKE" THEN <<"%">> \o req.Query[1] \o <<"%">>
  ELSE IF clause.cols[1] = "collected_at"
    THEN IF clause.op = ">=" THEN req.StartDate[1] ELSE req.EndDate[1]
  ELSE IF clause.cols[1] = "updated_at" THEN t
  ELSE req[CHOOSE f \in DOMAIN ColumnOf : ColumnOf[f] = clause.cols[1]][1]

\* each clause's placeholder resolves to the value the clause is about
ClausesBound(stmt, clauses, req, t) ==
  \A i \in 1..Len(clauses) :
    /\ PhIndex(clauses[i].ph) \in 1..Len(stmt.args)
    /\ Bound(stmt, clauses[i].ph) = ValueFor(req, clauses[i], t)

UpdateLockstep(req) ==
  LET stmt == UpdateStatement("id1", req, now)
  IN  Supplied(req) # {} =>
        /\ Consecutive(stmt)
        /\ Len(stmt.set) = Cardinality(Supplied(req)) + 1
        /\ ClausesBound(stmt, stmt.set, req, now)
        /\ stmt.set[Len(stmt.set)].cols = <<"updated_at">>
        /\ Len(stmt.where) = 1
        /\ stmt.where[1].cols = <<"id">>
        /\ Bound(stmt, stmt.where[1].ph) = "id1"

ListLockstep(filters) ==
  LET stmt == ListStatement(filters)
  IN  /\ Consecutive(stmt)
      /\ Len(stmt.where) = Cardinality(PresentIn("list", filters))
      /\ ClausesBound(stmt, stmt.where, filters, now)
      /\ (stmt.limit # "") = (filters.Limit > 0)
      /\ (stmt.offset # "") = (filters.Offset > 0)
      /\ stmt.limit # "" => Bound(stmt, stmt.limit) = filters.Limit
      /\ stmt.offset # "" => Bound(stmt, stmt.offset) = filters.Offset

SearchLockstep(req) ==
  LET data == SearchStatement(req)
      count == CountStatement(req)
  IN  /\ Consecutive(data)
      /\ Consecutive(count)
      /\ Len(data.where) = Cardinality(PresentIn("search", req))
      /\ ClausesBound(data, data.where, req, now)
      /\ ClausesBound(count, count.where, req, now)
      /\ Bound(data, data.limit) = req.PageSize
      /\ Bound(data, data.offset) = req.Page * req.PageSize
      /\ Len(count.args) = Len(count.where)
      /\ count.args = SubSeq(data.args, 1, Len(data.args) - 2)

\* C27: in every statement List, Search and Update build, the placeholders
\* are $1 to $n in the order they stand, n being the number of arguments,
\* and the argument a placeholder resolves to is the value of the filter or
\* field of its clause (the search text between two "%"), the limit, the
\* offset, the time for updated_at or the id; the count query of Search
\* carries the filter arguments and no others.
C27_PlaceholdersInLockstep ==
  /\ probe.op = "update" => UpdateLockstep(probe.a) /\ UpdateLockstep(probe.b)
  /\ probe.op = "list" => ListLockstep(probe.a) /\ ListLockstep(probe.b)
  /\ probe.op = "search" => SearchLockstep(probe.a) /\ SearchLockstep(probe.b)

\* a search with a text and a start date on page 1: $1 the text, $2 the
\* date, $3 the limit, $4 the offset; the count query has the first two
C27_Witness ==
  /\ probe.op = "search"
  /\ PresentIn("search", probe.a) = {"Query", "StartDate"}
  /\ probe.a.Page = 1
  /\ Placeholders(SearchStatement(probe.a)) = <<"$1", "$2", "$3", "$4">>
  /\ Len(SearchStatement(probe.a).args) = 4
  /\ SearchStatement(probe.a).args[4] = probe.a.PageSize
  /\ Len(CountStatement(probe.a).args) = 2

\* the records of a table that the filters and the search text of q select
Matching(rows, q) == {r \in MatchedByText(rows, q) : FilterMatches(r, q)}

\* C28 as claimed: totalCount of a search is the number of records matching
\* the filter in the table its data page was read from, whatever other
\* requests do in between.
C28_CountAndPageSameState ==
  Searched =>
    last.call.total = Cardinality(Matching(experience_data, last.call.q))

\* C28 amended: the count query counts the matching records of the table as
\* it is when it runs, the count is kept as it is until the response, and the
\* data query reads its page from the table as it is when it runs; between
\* the two queries other requests may create, update and delete records.
C28_CountAndPageEachFromItsQuery ==
  [][ \A c \in Clients :
        /\ (pc[c] = "next" /\ pc'[c] = "search") =>
             /\ experience_data' = experience_data
             /\ search'[c].total =
                  Cardinality(Matching(experience_data, search'[c].q))
        /\ (pc[c] = "search" /\ pc'[c] = "search") => search'[c] = search[c]
        /\ (pc[c] = "search" /\ HandlerStep(c)
              /\ last'.resp.status = StatusOK) =>
             /\ experience_data' = experience_data
             /\ last'.call.total = search[c].total
             /\ last'.call.q = search[c].q
             /\ Range(last'.data) \subseteq Matching(experience_data, search[c].q)
             /\ Len(last'.data) =
                  Cardinality(Range(last'.data))
             /\ search[c].req.Page = 0 =>
                  Len(last'.data) =
                    Min(search[c].req.PageSize,
                        Cardinality(Matching(experience_data, search[c].q)))
    ]_vars

\* a search of everything counted one record, another request created a
\* second one, and the page came back with both
C28_Witness ==
  /\ Searched
  /\ last.call.q = ZeroSearchQuery
  /\ last.call.total = 1
  /\ Len(last.data) = 2
  /\ Cardinality(experience_data) = 2

\* ------------------------------------------------------------------- C29
\* the offset bound into the data query of the search the probe holds
FarOffset == Bound(probe.stmt, probe.stmt.offset)

\* C29 (as claimed): for every page number the search endpoint accepts (any
\* non-negative int) and every effective page size in 1..40, the offset
\* bound into the data query is the product page * pageSize of the integers
\* and is not negative: the multiplication never wraps around.
C29_OffsetIsProduct ==
  probe.op = "far" =>
    /\ probe.req.Page >= 0
    /\ probe.req.PageSize \in 1..MaxPageSize
    /\ FarOffset = probe.req.Page * probe.req.PageSize
    /\ FarOffset >= 0

\* page 2^(IntBits-2) at four records a page: the product is 2^IntBits, the
\* offset bound is 0, and the response numbered 2^(IntBits-2) carries the
\* first records of the result
C29_Witness ==
  /\ probe.op = "far"
  /\ probe.req.Page = 2^(IntBits - 2)
  /\ probe.req.PageSize = 4
  /\ FarOffset = 0
  /\ probe.err = ""
  /\ probe.resps[1].Page = 2^(IntBits - 2)
  /\ Len(probe.resps[1].Data) = 4
  /\ Cardinality(experience_data) = 4

\* ------------------------------------------------------------------- C30
\* the records of api_keys with hash h (key_hash is UNIQUE: one at most)
RecordsOf(keys, h) == {k \in keys : k.key_hash = h}

\* the last-used update of hash h runs in this step
LastUsedStep(h) == pending'[h] = pending[h] - 1

\* record k as the update may leave it: as it was (the statement failed), or
\* with last_used_at and updated_at both at the clock's reading, nothing else
AfterLastUsed(k, k2) ==
  /\ k2.key_hash = k.key_hash
  /\ k2.is_active = k.is_active
  /\ k2.created_at = k.created_at
  /\ \/ k2.last_used_at = k.last_used_at /\ k2.updated_at = k.updated_at
     \/ k2.last_used_at = Ptr(now) /\ k2.updated_at = now

\* C30: the last-used update changes only last_used_at and updated_at, both
\* to one timestamp, of the record with the validated hash; it changes no
\* is_active, no key_hash and no other record, so a key switched off between
\* its validation and the update stays off and the next validation rejects
\* it; for a hash without a record it changes nothing and returns no error.
C30_LastUsedUpdateFrame ==
  [][ /\ \A h \in KeyHashes : LastUsedStep(h) =>
           /\ \A g \in KeyHashes \ {h} :
                RecordsOf(api_keys', g) = RecordsOf(api_keys, g)
           /\ Cardinality(RecordsOf(api_keys', h)) = Cardinality(RecordsOf(api_keys, h))
           /\ \A k \in RecordsOf(api_keys, h) : \A k2 \in RecordsOf(api_keys', h) :
                AfterLastUsed(k, k2)
           /\ RecordsOf(api_keys, h) = {} =>
                /\ api_keys' = api_keys
                /\ RepoUpdateLastUsedAt(api_keys, now, h, FALSE)
                     = [keys |-> api_keys, err |-> ""]
      /\ (AuthStep /\ BearerForm(last'.hdr)
            /\ \A k \in RecordsOf(api_keys, HashAPIKey(KeyOf(last'.hdr))) : ~k.is_active) =>
           /\ last'.resp.status = StatusUnauthorized
           /\ pc'[last'.client] = "idle"
           /\ pending' = pending
    ]_vars

\* the test key was validated for one request, was switched off, and its
\* last-used update has run: the record carries the timestamp twice and is
\* still off, and the second request with the key has been answered 401
C30_Witness ==
  /\ admitted = 2
  /\ last.event = "auth"
  /\ last.hdr = <<"Bearer", " ">> \o TestAPIKey
  /\ last.resp.status = StatusUnauthorized
  /\ pending[HashAPIKey(TestAPIKey)] = 0
  /\ \E k \in RecordsOf(api_keys, HashAPIKey(TestAPIKey)) :
       /\ ~k.is_active
       /\ k.last_used_at = Ptr(2)
       /\ k.updated_at = 2
       /\ k.created_at = 0

====
